---- MODULE Spec2Model ----
(***************************************************************************)
(* Channel directory and message mutation engine of the chat backend.     *)
(*                                                                         *)
(* Persistent state: the Channel and Message collections.  Every request   *)
(* handler (HTTP controller or socket event handler) is one action when    *)
(* requests are handled one at a time, and one action per storage await    *)
(* when requests interleave.                                               *)
(***************************************************************************)
EXTENDS Integers, Sequences, FiniteSets, TLC

VARIABLES
    channels,       \* Channel collection: _id -> document
    nextChannelId,  \* next fresh Channel _id
    messages,       \* Message collection: _id -> document
    nextMessageId,  \* next fresh Message _id
    now,            \* Date.now(), in seconds
    ticks,          \* number of clock advances so far
    reqs,           \* in-flight HTTP requests: slot -> handler frame
    last,           \* the response / acknowledgment of the latest finished request
    notifications,  \* Notification collection, in the order of creation
    jobs,           \* processMentions calls running detached from their event
    users,          \* User collection: _id -> is_online, last_seen
    writes,         \* updateUserStatus calls whose update has not reached the store
    sessions,       \* live socket connections: socket -> user, rooms
    mails,          \* the sendMentionEmail calls made so far, with their outcome
    uploads,        \* the attachment store: the files uploadToCloudinary has stored
    log             \* what the handlers run step by step did, in order

\* what the handlers leave outside the database
effects == <<mails, uploads, log>>

\* the state outside the Channel and Message collections
outside == <<notifications, jobs, users, writes, sessions, effects>>

vars == <<channels, nextChannelId, messages, nextMessageId, now, ticks, reqs, last, outside>>

-----------------------------------------------------------------------------
(* Bounds *)

NumUsers == 3
MaxChannelIds == 2
MaxMessageIds == 1
MaxTicks == 2
MaxReqs == 2
MaxReactions == 2
MaxSessions == 3
MaxUploads == 2
MaxArrivals == 4

-----------------------------------------------------------------------------
(* Values *)

Null == 0
Undefined == "undefined"

Users == 1..NumUsers
\* an ObjectId of no stored user
GhostUser == NumUsers + 1
UserIds == Users \cup {GhostUser}

\* User.findById: the User collection is fixed (registration is outside)
UserExists(u) == u \in Users

\* User.created_at: the order of registration is not the order of the labels
UserCreatedAt(u) == (u + 1) % NumUsers

\* role: the first user saved is the admin
UserRole(u) == IF UserCreatedAt(u) = 0 THEN "admin" ELSE "member"

Slots == 1..MaxReqs

-----------------------------------------------------------------------------
(* Strings are sequences of characters *)

LowerLetters == {"a", "b", "c", "d", "e", "g", "h", "l", "m", "n", "o", "p", "r", "s", "v"}
DigitChars == {"0", "1", "2", "3", "4", "5", "6", "7", "8", "9"}
Whitespace == {" "}

\* String.prototype.toLowerCase
LowerChar(c) ==
    CASE c = "A" -> "a"
      [] c = "D" -> "d"
      [] c = "G" -> "g"
      [] OTHER -> c

ToLowerCase(s) == [i \in 1..Len(s) |-> LowerChar(s[i])]

RECURSIVE TrimLeft(_)
TrimLeft(s) ==
    IF s = <<>> THEN <<>>
    ELSE IF Head(s) \in Whitespace THEN TrimLeft(Tail(s)) ELSE s

RECURSIVE TrimRight(_)
TrimRight(s) ==
    IF s = <<>> THEN <<>>
    ELSE IF s[Len(s)] \in Whitespace THEN TrimRight(SubSeq(s, 1, Len(s) - 1)) ELSE s

\* String.prototype.trim
Trim(s) == TrimRight(TrimLeft(s))

\* /^[a-z0-9-_]+$/
NameRegexTest(s) ==
    /\ Len(s) > 0
    /\ \A i \in 1..Len(s) : s[i] \in LowerLetters \cup DigitChars \cup {"-", "_"}

ObjectIdHexLen == 12 * 2
HexDigit == <<"1", "2", "3", "4", "5", "6", "7", "8", "9", "a", "b", "c", "d", "e">>

\* ObjectId.prototype.toString: 24 hexadecimal characters
ObjectIdString(id) ==
    [i \in 1..ObjectIdHexLen |-> IF i = ObjectIdHexLen THEN HexDigit[id] ELSE "0"]

\* `dm-${req.user._id}-${user_id}`
DmName(me, other) ==
    <<"d", "m", "-">> \o ObjectIdString(me) \o <<"-">> \o ObjectIdString(other)

-----------------------------------------------------------------------------
(* Channel model (models/Channel.js) *)

MinNameLength == 3
MaxNameLength == 50
MaxPublicChannels == 10

ChannelTypes == {"public", "dm"}

Range(seq) == {seq[i] : i \in 1..Len(seq)}

\* Array.prototype.filter(memberId => memberId !== u)
RECURSIVE Without(_, _)
Without(seq, u) ==
    IF seq = <<>> THEN <<>>
    ELSE IF Head(seq) = u THEN Without(Tail(seq), u)
    ELSE <<Head(seq)>> \o Without(Tail(seq), u)

\* the schema's setters on name: trim, lowercase
NameSetters(name) == ToLowerCase(Trim(name))

\* (mutant: no maxlength validator)
NameMaxLengthOk_none(name) == TRUE

\* maxlength: [50, ...]
NameMaxLengthOk(name) == Len(name) <= MaxNameLength

\* the schema's validators, run by save() and create()
ChannelValidate(doc) ==
    /\ doc.name # <<>>
    /\ Len(doc.name) >= MinNameLength
    /\ NameMaxLengthOk(doc.name)
    /\ NameRegexTest(doc.name)
    /\ doc.type \in ChannelTypes
    /\ doc.created_by # Null

\* pre('save'): a new document gets its creator as a member
ChannelPreSave(doc) ==
    IF doc.created_by # Null /\ doc.created_by \notin Range(doc.members)
    THEN [doc EXCEPT !.members = Append(@, doc.created_by)]
    ELSE doc

\* countDocuments({ type: 'public' })
PublicCount(chs) == Cardinality({c \in DOMAIN chs : chs[c].type = "public"})

\* (mutant: off by one)
IsChannelLimitReached_gt(chs) == PublicCount(chs) > MaxPublicChannels

\* statics.isChannelLimitReached
IsChannelLimitReached(chs) == PublicCount(chs) >= MaxPublicChannels

\* Channel.findOne({ name }): Null when there is none
FindByName(chs, name) ==
    LET hit == {c \in DOMAIN chs : chs[c].name = name}
    IN IF hit = {} THEN Null ELSE CHOOSE c \in hit : \A d \in hit : c <= d

\* statics.findDmChannel: { type: 'dm', members: { $all: [a, b], $size: 2 } }
FindDmChannel(chs, a, b) ==
    LET hit == {c \in DOMAIN chs :
                  /\ chs[c].type = "dm"
                  /\ {a, b} \subseteq Range(chs[c].members)
                  /\ Len(chs[c].members) = 2}
    IN IF hit = {} THEN Null ELSE CHOOSE c \in hit : \A d \in hit : c <= d

\* (mutant: the first other member of the array, whatever its registration time)
OldestMember_first(members, me) ==
    LET rest == Without(members, me)
    IN IF rest = <<>> THEN Null ELSE Head(rest)

\* User.findOne({ _id: { $in: members, $ne: me } }).sort({ created_at: 1 })
OldestMember(members, me) ==
    LET cand == {u \in Range(members) : UserExists(u) /\ u # me}
    IN IF cand = {} THEN Null
       ELSE CHOOSE u \in cand : \A v \in cand : UserCreatedAt(u) <= UserCreatedAt(v)

\* (mutant: the emptied channel is saved)
LeaveDeletesChannel_never(members) == FALSE

\* leaveChannel: what becomes of the channel once the member is removed
LeaveDeletesChannel(members) == Len(members) = 0

\* what a handler hands back: the outcome and the collections it leaves
Result(err, note, id, chs, msgs) ==
    [err |-> err, note |-> note, id |-> id, channels |-> chs, messages |-> msgs]

\* Channel.create(data): setters, validators, pre-save hook, unique index on name
ChannelCreate(chs, msgs, nid, data) ==
    LET doc == [data EXCEPT !.name = NameSetters(@)]
    IN IF ~ChannelValidate(doc)
       THEN Result("ValidationError", "", Null, chs, msgs)
       ELSE IF FindByName(chs, doc.name) # Null
       THEN Result("DuplicateKey", "", Null, chs, msgs)
       ELSE Result("none", "created", nid,
                   [c \in DOMAIN chs \cup {nid} |->
                       IF c = nid THEN ChannelPreSave(doc) ELSE chs[c]],
                   msgs)

-----------------------------------------------------------------------------
(* Channel controller, one request at a time *)

\* const { name, type = 'public' } = req.body
DefaultType(type) == IF type = Undefined THEN "public" ELSE type

\* createChannel before its first await: "" when the request goes on
CreateChannelSyncCheck(name) ==
    IF name = <<>> \/ Trim(name) = <<>> THEN "NameRequired"
    ELSE IF ~NameRegexTest(name) THEN "NameInvalid"
    ELSE ""

\* createChannel up to the name lookup: "" when the request goes on
CreateChannelNameCheck(chs, name) ==
    IF CreateChannelSyncCheck(name) # "" THEN CreateChannelSyncCheck(name)
    ELSE IF FindByName(chs, ToLowerCase(name)) # Null THEN "NameTaken"
    ELSE ""

CreateChannelData(u, name, type) ==
    [name |-> ToLowerCase(name), type |-> DefaultType(type),
     created_by |-> u, members |-> <<u>>]

\* exports.createChannel
CreateChannel(chs, msgs, nid, u, name, type) ==
    LET e == CreateChannelNameCheck(chs, name)
    IN IF e # "" THEN Result(e, "", Null, chs, msgs)
       ELSE IF DefaultType(type) = "public" /\ IsChannelLimitReached(chs)
       THEN Result("LimitReached", "", Null, chs, msgs)
       ELSE ChannelCreate(chs, msgs, nid, CreateChannelData(u, name, type))

\* exports.joinChannel
JoinChannel(chs, msgs, u, id) ==
    IF id \notin DOMAIN chs THEN Result("NotFound", "", Null, chs, msgs)
    ELSE IF chs[id].type # "public" THEN Result("NotPublic", "", Null, chs, msgs)
    ELSE IF u \in Range(chs[id].members) THEN Result("AlreadyMember", "", Null, chs, msgs)
    ELSE Result("none", "joined", id,
                [chs EXCEPT ![id].members = Append(@, u)], msgs)

\* leaveChannel: the creator after the leave
CreatorAfterLeave(ch, u) ==
    IF ch.created_by = u /\ Len(ch.members) > 1
    THEN LET o == OldestMember(ch.members, u)
         IN IF o # Null THEN o ELSE ch.created_by
    ELSE ch.created_by

\* exports.leaveChannel
LeaveChannel(chs, msgs, u, id) ==
    IF id \notin DOMAIN chs THEN Result("NotFound", "", Null, chs, msgs)
    ELSE IF chs[id].type # "public" THEN Result("NotPublic", "", Null, chs, msgs)
    ELSE IF u \notin Range(chs[id].members) THEN Result("NotMember", "", Null, chs, msgs)
    ELSE LET ch == chs[id]
             left == [ch EXCEPT !.created_by = CreatorAfterLeave(ch, u),
                                !.members = Without(ch.members, u)]
         IN IF LeaveDeletesChannel(left.members)
            THEN Result("none", "ChannelDeleted", id,
                        [c \in DOMAIN chs \ {id} |-> chs[c]], msgs)
            ELSE Result("none", "Left", id, [chs EXCEPT ![id] = left], msgs)

GeneralName == <<"g", "e", "n", "e", "r", "a", "l">>

\* restrictTo('admin'), then exports.deleteChannel
DeleteChannel(chs, msgs, u, id) ==
    IF UserRole(u) # "admin" THEN Result("Forbidden", "", Null, chs, msgs)
    ELSE IF id \notin DOMAIN chs THEN Result("NotFound", "", Null, chs, msgs)
    ELSE IF chs[id].name = GeneralName THEN Result("General", "", Null, chs, msgs)
    ELSE Result("none", "deleted", id,
                [c \in DOMAIN chs \ {id} |-> chs[c]],
                [m \in {x \in DOMAIN msgs : msgs[x].channel_id # id} |-> msgs[m]])

CreateDmData(u, other) ==
    [name |-> DmName(u, other), type |-> "dm",
     created_by |-> u, members |-> <<u, other>>]

\* exports.createDmChannel
CreateDmChannel(chs, msgs, nid, u, other) ==
    IF ~UserExists(other) THEN Result("UserNotFound", "", Null, chs, msgs)
    ELSE LET existing == FindDmChannel(chs, u, other)
         IN IF existing # Null
            THEN Result("none", "existing", existing, chs, msgs)
            ELSE ChannelCreate(chs, msgs, nid, CreateDmData(u, other))

-----------------------------------------------------------------------------
(* Requests and responses *)

NameInputs ==
    { <<>>, <<" ", " ", " ">>, <<"d", "e", "v">>, <<"D", "e", "v">>,
      <<"a", "b">>, GeneralName }

TypeInputs == {Undefined, "dm", "private"}

\* no handler frame in the slot
Idle == [op |-> "none", pc |-> "idle", user |-> Null, name |-> <<>>, type |-> "",
         target |-> Null, raced |-> FALSE]

\* io.to(`channel:${id}`) and io.to(`thread:${id}`)
Room(kind, id) == [kind |-> kind, id |-> id]
Event(name, room) == [name |-> name, room |-> room]

MessageOps ==
    {"createMessage", "editMessage", "deleteMessage", "addReaction", "removeReaction",
     "pinMessage", "unpinMessage"}

\* the name of the event a message handler emits once its write is done
EventName(op) ==
    CASE op = "createMessage" -> "message:new"
      [] op = "editMessage" -> "message:edited"
      [] op = "deleteMessage" -> "message:deleted"
      [] op = "addReaction" -> "message:reaction_added"
      [] op = "removeReaction" -> "message:reaction_removed"
      [] op = "pinMessage" -> "message:pinned"
      [] OTHER -> "message:unpinned"

\* (mutant: a reply is announced in its channel room only)
Emitted_channelOnly(op, r) ==
    IF op \notin MessageOps \/ r.err # "none" THEN <<>>
    ELSE <<Event(EventName(op), Room("channel", r.messages[r.id].channel_id))>>

\* the events the handler of op emits, in order, given its result (both transports
\* emit the same; the channel handlers emit none)
Emitted(op, r) ==
    IF op \notin MessageOps \/ r.err # "none" THEN <<>>
    ELSE <<Event(EventName(op), Room("channel", r.messages[r.id].channel_id))>>
         \o IF op = "createMessage" /\ r.messages[r.id].thread_parent_id # Null
            THEN <<Event("thread:new_reply",
                         Room("thread", r.messages[r.id].thread_parent_id))>>
            ELSE <<>>

\* res.json / next(error) / the acknowledgment callback, with the request it answers
\* (seen: the creator of the channel document the handler loaded, raced: another
\* handler was between its read and its write when this one wrote, emitted: the
\* events it published, at: the time of the answer)
Response(op, via, u, target, r, seen, raced) ==
    [op |-> op, via |-> via, user |-> u, target |-> target,
     err |-> r.err, note |-> r.note, id |-> r.id, seen |-> seen, raced |-> raced,
     emitted |-> Emitted(op, r), at |-> now]

NoResponse ==
    [op |-> "none", via |-> "", user |-> Null, target |-> Null,
     err |-> "", note |-> "", id |-> Null, seen |-> Null, raced |-> FALSE,
     emitted |-> <<>>, at |-> 0]

\* channel.created_by of the document findById returns
LoadedCreator(chs, id) == IF id \in DOMAIN chs THEN chs[id].created_by ELSE Null

\* a user document before any connection: is_online false
NewUser == [is_online |-> FALSE, last_seen |-> 0]

InitOutside ==
    /\ notifications = <<>>
    /\ jobs = <<>>
    /\ users = [u \in Users |-> NewUser]
    /\ writes = <<>>
    /\ sessions = <<>>
    /\ mails = <<>>
    /\ uploads = <<>>
    /\ log = <<>>

Init ==
    /\ channels = <<>>
    /\ nextChannelId = 1
    /\ messages = <<>>
    /\ nextMessageId = 1
    /\ now = 0
    /\ ticks = 0
    /\ reqs = [s \in Slots |-> Idle]
    /\ last = NoResponse
    /\ InitOutside

\* a handler's result written to the store, ids are never reused
Commit(r) ==
    /\ channels' = r.channels
    /\ messages' = r.messages
    /\ nextChannelId' =
          IF r.id # Null /\ r.note = "created" THEN nextChannelId + 1 ELSE nextChannelId

-----------------------------------------------------------------------------
(* Channel requests handled one at a time *)

\* POST /api/channels, with at most cap channel ids handed out
CreateChannelUpTo(cap, u, name, type) ==
    \E r \in {CreateChannel(channels, messages, nextChannelId, u, name, type)} :
       /\ r.err = "none" => nextChannelId <= cap
       /\ Commit(r)
       /\ last' = Response("createChannel", "http", u, Null, r, Null, FALSE)
       /\ UNCHANGED <<nextMessageId, now, ticks, reqs, outside>>

CreateChannelReq(u, name, type) == CreateChannelUpTo(MaxChannelIds, u, name, type)

\* POST /api/channels/:id/join
JoinChannelReq(u, id) ==
    \E r \in {JoinChannel(channels, messages, u, id)} :
       /\ Commit(r)
       /\ last' = Response("joinChannel", "http", u, id, r, Null, FALSE)
       /\ UNCHANGED <<nextMessageId, now, ticks, reqs, outside>>

\* POST /api/channels/:id/leave
LeaveChannelReq(u, id) ==
    \E r \in {LeaveChannel(channels, messages, u, id)} :
       /\ Commit(r)
       /\ last' = Response("leaveChannel", "http", u, id, r, LoadedCreator(channels, id), FALSE)
       /\ UNCHANGED <<nextMessageId, now, ticks, reqs, outside>>

\* DELETE /api/channels/:id
DeleteChannelReq(u, id) ==
    \E r \in {DeleteChannel(channels, messages, u, id)} :
       /\ Commit(r)
       /\ last' = Response("deleteChannel", "http", u, id, r, Null, FALSE)
       /\ UNCHANGED <<nextMessageId, now, ticks, reqs, outside>>

\* POST /api/channels/dm
CreateDmChannelReq(u, other) ==
    \E r \in {CreateDmChannel(channels, messages, nextChannelId, u, other)} :
       /\ r.err = "none" /\ r.note = "created" => nextChannelId <= MaxChannelIds
       /\ Commit(r)
       /\ last' = Response("createDmChannel", "http", u, other, r, Null, FALSE)
       /\ UNCHANGED <<nextMessageId, now, ticks, reqs, outside>>

ChannelIds == 1..MaxChannelIds

Next ==
    \/ \E u \in Users, name \in NameInputs, type \in TypeInputs : CreateChannelReq(u, name, type)
    \/ \E u \in Users, id \in ChannelIds : JoinChannelReq(u, id)
    \/ \E u \in Users, id \in ChannelIds : LeaveChannelReq(u, id)
    \/ \E u \in Users, id \in ChannelIds : DeleteChannelReq(u, id)
    \/ \E u \in Users, other \in UserIds : CreateDmChannelReq(u, other)

Spec == Init /\ [][Next]_vars

-----------------------------------------------------------------------------
(* Channel directory, requests handled one at a time *)

\* C5: every channel of type dm has exactly 2 members and the two are distinct users
C5_DmHasTwoDistinctMembers ==
    \A c \in DOMAIN channels :
        channels[c].type = "dm" =>
            /\ Len(channels[c].members) = 2
            /\ channels[c].members[1] # channels[c].members[2]

\* C6: createDmChannel for an existing other user answers with a dm channel, and a
\* second call for the same pair right after a successful one answers with the same id
C6_FindOrCreateDmReturnsChannel ==
    [][ (last'.op = "createDmChannel" /\ UserExists(last'.target)) =>
            /\ last'.err = "none"
            /\ last'.id \in DOMAIN channels'
            /\ channels'[last'.id].type = "dm"
            /\ (last.op = "createDmChannel" /\ last.err = "none"
                  /\ {last.user, last.target} = {last'.user, last'.target})
                 => last'.id = last.id ]_vars

\* C9: every stored channel has at least one member, and the channel a leave reported
\* deleted (its last member left) is no longer stored
C9_ChannelsHaveMembers ==
    /\ \A c \in DOMAIN channels : Len(channels[c].members) >= 1
    /\ (last.op = "leaveChannel" /\ last.note = "ChannelDeleted") =>
          last.id \notin DOMAIN channels

\* a sole member has left a public channel while another channel is stored
C9_Witness ==
    /\ last.op = "leaveChannel"
    /\ last.note = "ChannelDeleted"
    /\ last.seen = last.user
    /\ DOMAIN channels # {}

\* the user with the earliest account-creation time among the members
IsEarliestMember(u, members) ==
    /\ u \in Range(members)
    /\ \A v \in Range(members) : UserCreatedAt(u) <= UserCreatedAt(v)

\* C10: when the creator of a public channel leaves while other members remain, the
\* creator becomes the remaining member registered first, and the leaver is neither
\* creator nor member any more
C10_OwnershipTransfer ==
    [][ \A c \in DOMAIN channels :
          ( /\ last'.op = "leaveChannel" /\ last'.err = "none" /\ last'.target = c
            /\ channels[c].type = "public"
            /\ channels[c].created_by = last'.user
            /\ Range(channels[c].members) \ {last'.user} # {} )
          => /\ c \in DOMAIN channels'
             /\ IsEarliestMember(channels'[c].created_by, channels'[c].members)
             /\ channels'[c].created_by # last'.user
             /\ last'.user \notin Range(channels'[c].members) ]_vars

\* the creator has left a channel in which two members remain, and the one who joined
\* first is not the one registered first
C10_Witness ==
    /\ last.op = "leaveChannel" /\ last.note = "Left"
    /\ last.seen = last.user
    /\ last.id \in DOMAIN channels
    /\ Len(channels[last.id].members) = 2
    /\ channels[last.id].created_by = channels[last.id].members[2]

-----------------------------------------------------------------------------
(* The public-channel limit, requests handled one at a time *)

\* the requests of this part come from the admin
Admin == CHOOSE u \in Users : UserRole(u) = "admin"

PoolLetters == <<"a", "b", "c", "d", "e", "g", "h", "l", "m", "n", "o", "p", "r", "s", "v">>
PoolName(i) == <<"c", "h", PoolLetters[i]>>
PoolNames == {PoolName(i) : i \in 1..Len(PoolLetters)}

StoredNames(chs) == {chs[c].name : c \in DOMAIN chs}
HeldNames == {reqs[s].name : s \in {t \in Slots : reqs[t].op = "createChannel"}}

RECURSIVE FirstFree(_, _)
FirstFree(i, used) == IF PoolName(i) \notin used THEN i ELSE FirstFree(i + 1, used)

\* the first pool name neither stored nor held by a request in flight
FreshName == PoolName(FirstFree(1, StoredNames(channels) \cup HeldNames))

\* one unused valid name stands for all of them; a stored name; a name in flight
LimitNameInputs ==
    {FreshName} \cup HeldNames \cup ({PoolName(1)} \cap StoredNames(channels))

\* enough ids to pass the limit beside the dm channels
LimitIdCap == MaxPublicChannels + MaxChannelIds + 1

DmCount(chs) == Cardinality({c \in DOMAIN chs : chs[c].type = "dm"})

\* createChannel requests only; the dm channels among them are bounded
NextLimit ==
    \E name \in LimitNameInputs, type \in {Undefined, "dm"} :
        /\ type = "dm" => DmCount(channels) < MaxChannelIds
        /\ CreateChannelUpTo(LimitIdCap, Admin, name, type)

SpecLimit == Init /\ [][NextLimit]_vars

-----------------------------------------------------------------------------
(* Channel creation, handlers interleaved at their storage awaits *)

Frame(op, pc, u, name, type, target, raced) ==
    [op |-> op, pc |-> pc, user |-> u, name |-> name, type |-> type,
     target |-> target, raced |-> raced]

\* two handlers whose reads and writes are of the same data: two createChannel, or
\* two createDmChannel for the same two users
Conflicting(f, g) ==
    /\ f.op = g.op
    /\ f.op = "createDmChannel" => {f.user, f.target} = {g.user, g.target}

\* a conflicting handler other than s has read and not yet written
OtherInWindow(s) ==
    \E t \in Slots \ {s} :
        reqs[t].pc \in {"count", "create"} /\ Conflicting(reqs[s], reqs[t])

Respond(s, r) ==
    /\ reqs' = [reqs EXCEPT ![s] = Idle]
    /\ last' = Response(reqs[s].op, "http", reqs[s].user, reqs[s].target, r, Null,
                        reqs[s].raced \/ OtherInWindow(s))

Rejected(err) == Result(err, "", Null, channels, messages)

Goto(s, pc) ==
    /\ reqs' = [reqs EXCEPT ![s].pc = pc, ![s].raced = @ \/ OtherInWindow(s)]
    /\ UNCHANGED last

\* createChannel arrives: the checks before the first await
StartCreateChannel(s, u, name, type) ==
    /\ reqs[s].pc = "idle"
    /\ IF CreateChannelSyncCheck(name) # ""
       THEN /\ last' = Response("createChannel", "http", u, Null,
                                Rejected(CreateChannelSyncCheck(name)), Null, FALSE)
            /\ UNCHANGED reqs
       ELSE /\ reqs' = [reqs EXCEPT ![s] =
                          Frame("createChannel", "findName", u, name, type, Null, FALSE)]
            /\ UNCHANGED last
    /\ UNCHANGED <<channels, nextChannelId, messages, nextMessageId, now, ticks, outside>>

\* await Channel.findOne({ name })
FindNameStep(s) ==
    /\ reqs[s].pc = "findName"
    /\ IF FindByName(channels, ToLowerCase(reqs[s].name)) # Null
       THEN Respond(s, Rejected("NameTaken"))
       ELSE Goto(s, IF DefaultType(reqs[s].type) = "public" THEN "count" ELSE "create")
    /\ UNCHANGED <<channels, nextChannelId, messages, nextMessageId, now, ticks, outside>>

\* await Channel.isChannelLimitReached()
CountStep(s) ==
    /\ reqs[s].pc = "count"
    /\ IF IsChannelLimitReached(channels)
       THEN Respond(s, Rejected("LimitReached"))
       ELSE Goto(s, "create")
    /\ UNCHANGED <<channels, nextChannelId, messages, nextMessageId, now, ticks, outside>>

\* createDmChannel arrives: await User.findById (the users are fixed)
StartCreateDm(s, u, other) ==
    /\ reqs[s].pc = "idle"
    /\ IF ~UserExists(other)
       THEN /\ last' = Response("createDmChannel", "http", u, other,
                                Rejected("UserNotFound"), Null, FALSE)
            /\ UNCHANGED reqs
       ELSE /\ reqs' = [reqs EXCEPT ![s] =
                          Frame("createDmChannel", "findDm", u, <<>>, "dm", other, FALSE)]
            /\ UNCHANGED last
    /\ UNCHANGED <<channels, nextChannelId, messages, nextMessageId, now, ticks, outside>>

\* await Channel.findDmChannel(me, other)
FindDmStep(s) ==
    /\ reqs[s].pc = "findDm"
    /\ \E existing \in {FindDmChannel(channels, reqs[s].user, reqs[s].target)} :
          IF existing # Null
          THEN Respond(s, Result("none", "existing", existing, channels, messages))
          ELSE Goto(s, "create")
    /\ UNCHANGED <<channels, nextChannelId, messages, nextMessageId, now, ticks, outside>>

FrameData(f) ==
    IF f.op = "createDmChannel" THEN CreateDmData(f.user, f.target)
    ELSE CreateChannelData(f.user, f.name, f.type)

\* await Channel.create(...)
CreateStep(cap, s) ==
    /\ reqs[s].pc = "create"
    /\ \E r \in {ChannelCreate(channels, messages, nextChannelId, FrameData(reqs[s]))} :
          /\ r.err = "none" => nextChannelId <= cap
          /\ Commit(r)
          /\ Respond(s, r)
    /\ UNCHANGED <<nextMessageId, now, ticks, outside>>

\* the channels after k createChannel requests of the admin, handled one at a time
RECURSIVE Prefilled(_)
Prefilled(k) ==
    IF k = 0 THEN <<>>
    ELSE CreateChannel(Prefilled(k - 1), <<>>, k, Admin, PoolName(k), Undefined).channels

\* the store is as many places short of the limit as there are handlers
RacePrefill == MaxPublicChannels - MaxReqs

InitLimitRace ==
    /\ channels = Prefilled(RacePrefill)
    /\ nextChannelId = RacePrefill + 1
    /\ messages = <<>>
    /\ nextMessageId = 1
    /\ now = 0
    /\ ticks = 0
    /\ reqs = [s \in Slots |-> Idle]
    /\ last = NoResponse
    /\ InitOutside

NextLimitRace ==
    \/ \E s \in Slots, name \in LimitNameInputs : StartCreateChannel(s, Admin, name, Undefined)
    \/ \E s \in Slots : FindNameStep(s)
    \/ \E s \in Slots : CountStep(s)
    \/ \E s \in Slots : CreateStep(LimitIdCap, s)

SpecLimitRace == InitLimitRace /\ [][NextLimitRace]_vars

DmRaceNames == {<<"d", "e", "v">>}

NextDmRace ==
    \/ \E s \in Slots, u \in Users, other \in UserIds : StartCreateDm(s, u, other)
    \/ \E s \in Slots : FindDmStep(s)
    \/ \E s \in Slots : CreateStep(MaxChannelIds, s)
    \/ \E u \in Users, name \in DmRaceNames, type \in {"dm"} : CreateChannelReq(u, name, type)

SpecDmRace == Init /\ [][NextDmRace]_vars

-----------------------------------------------------------------------------
(* Claims on channel creation *)

DmChannelsOf(a, b) ==
    {c \in DOMAIN channels : channels[c].type = "dm" /\ Range(channels[c].members) = {a, b}}

\* C4: at most one channel of type dm has a given pair of users as its members,
\* also when createDmChannel requests for the pair interleave
C4_OneDmPerPair ==
    \A a \in Users, b \in Users : a # b => Cardinality(DmChannelsOf(a, b)) <= 1

\* two createDmChannel requests for one pair have both finished, each having read
\* before the other wrote
C4_Witness ==
    /\ last.op = "createDmChannel"
    /\ last.raced
    /\ last.note # "existing"
    /\ \A s \in Slots : reqs[s].pc = "idle"

\* C7: at most 10 public channels are stored, also when createChannel requests
\* interleave between the count and the insert
C7_AtMostTenPublic == PublicCount(channels) <= MaxPublicChannels

ValidUnusedNames ==
    {n \in PoolNames : n \notin StoredNames(channels)}

\* C8: handled one at a time, createChannel of a valid unused public name is accepted
\* and stores the channel while fewer than 10 public channels are stored, and is
\* refused with the limit error, the channels unchanged, when 10 are stored
C8_LimitSequential ==
    /\ \A n \in ValidUnusedNames :
         \E r \in {CreateChannel(channels, messages, nextChannelId, Admin, n, "public")} :
            IF PublicCount(channels) < 10
            THEN /\ r.err = "none"
                 /\ r.id \in DOMAIN r.channels
                 /\ r.channels[r.id].name = n /\ r.channels[r.id].type = "public"
                 /\ PublicCount(r.channels) = PublicCount(channels) + 1
            ELSE /\ r.err = "LimitReached"
                 /\ r.channels = channels
    /\ PublicCount(channels) <= 10
    /\ (last.op = "createChannel" /\ last.err = "LimitReached") => PublicCount(channels) = 10

\* the 11th public channel has been refused while a dm channel is stored as well
C8_Witness ==
    /\ last.op = "createChannel" /\ last.err = "LimitReached"
    /\ PublicCount(channels) = 10
    /\ DmCount(channels) > 0

-----------------------------------------------------------------------------
(* Message model (models/Message.js) *)

MaxContentLength == 2000
EditWindow == 5 * 60

Tombstone ==
    << "[", "T", "h", "i", "s", " ", "m", "e", "s", "s", "a", "g", "e", " ", "h", "a", "s",
       " ", "b", "e", "e", "n", " ", "d", "e", "l", "e", "t", "e", "d", "]" >>

\* a value as JavaScript compares it with === : a string, or an ObjectId object
StringOf(id) == [kind |-> "string", val |-> id]
ObjectIdOf(id) == [kind |-> "ObjectId", val |-> id]

\* (mutant: any two values of one type are equal)
StrictEquals_sameType(a, b) == a.kind = b.kind

\* a !== b is the negation of this: two strings with the same characters are equal,
\* a string and an object never are, two objects only when they are the same object
StrictEquals(a, b) == a.kind = "string" /\ b.kind = "string" /\ a.val = b.val

\* a string field the request does not carry
NoString == <<Undefined>>

\* a JavaScript value in a condition: a string, an id, an emoji, a property read
TruthyString(s) == s # NoString /\ s # <<>>
TruthyId(id) == id # Null
TruthyEmoji(e) == e # Undefined /\ e # ""
TruthyProperty(v) == v # Undefined

\* the content validator of the schema: maxlength 2000 (content is not required)
MessageValidate(doc) ==
    /\ (doc.content # NoString => Len(doc.content) <= MaxContentLength)
    /\ doc.channel_id # Null
    /\ doc.author_id # Null

\* file_url: default null
NoFileUrl == "null"

NewMessage(content, author, channel, parent, file, t) ==
    [content |-> content, author_id |-> author, channel_id |-> channel,
     thread_parent_id |-> parent, file_url |-> file, reactions |-> <<>>,
     is_deleted |-> FALSE, is_edited |-> FALSE, is_pinned |-> FALSE, created_at |-> t]

\* Message.create(data)
MessageCreate(chs, msgs, nid, doc) ==
    IF ~MessageValidate(doc) THEN Result("ValidationError", "", Null, chs, msgs)
    ELSE Result("none", "sent", nid, chs,
                [m \in DOMAIN msgs \cup {nid} |-> IF m = nid THEN doc ELSE msgs[m]])

CanBeEdited_ge(msg, t) == msg.created_at >= t - EditWindow /\ ~msg.is_deleted

\* methods.canBeEdited
CanBeEdited(msg, t) == msg.created_at > t - EditWindow /\ ~msg.is_deleted

HasReaction(msg, emoji, u) ==
    \E i \in 1..Len(msg.reactions) :
        msg.reactions[i].emoji = emoji /\ msg.reactions[i].user_id = u

\* the reactionSchema validator: emoji is required
ReactionValidate(emoji) == emoji # Undefined

\* methods.addReaction, the document it saves
WithReaction(msg, emoji, u) ==
    IF HasReaction(msg, emoji, u) THEN msg
    ELSE [msg EXCEPT !.reactions = Append(@, [emoji |-> emoji, user_id |-> u])]

RECURSIVE FilterReactions(_, _, _)
FilterReactions(rs, emoji, u) ==
    IF rs = <<>> THEN <<>>
    ELSE IF Head(rs).emoji = emoji /\ Head(rs).user_id = u
         THEN FilterReactions(Tail(rs), emoji, u)
         ELSE <<Head(rs)>> \o FilterReactions(Tail(rs), emoji, u)

\* methods.removeReaction, the document it saves
WithoutReaction(msg, emoji, u) ==
    [msg EXCEPT !.reactions = FilterReactions(@, emoji, u)]

\* !content || content.trim() === ''
IsBlank(content) == ~TruthyString(content) \/ Trim(content) = <<>>

\* a property read on an ObjectId that is no populated document: undefined
ObjectIdProperty(oid, prop) == Undefined


IsMember(chs, c, u) == c \in DOMAIN chs /\ u \in Range(chs[c].members)

-----------------------------------------------------------------------------
(* Message controller (HTTP) *)

\* createMessage: the thread-depth condition
\*   parentMessage.thread_parent_id && parentMessage.thread_parent_id.thread_parent_id
HttpDepthExceeded(msgs, parent) ==
    /\ TruthyId(msgs[parent].thread_parent_id)
    /\ TruthyProperty(ObjectIdProperty(msgs[parent].thread_parent_id, "thread_parent_id"))

\* (mutant: a file is accepted in every channel)
AttachmentAllowed_any(ch) == TRUE

\* req.file && channel.type !== 'dm' is the refusal: files go to dm channels only
AttachmentAllowed(ch) == ch.type = "dm"

\* exports.createMessage (upload: whether uploadToCloudinary succeeds)
HttpCreateMessage(chs, msgs, nid, t, u, content, channel, parent, file, upload) ==
    IF IsBlank(content) /\ ~file THEN Result("EmptyContent", "", Null, chs, msgs)
    ELSE IF TruthyString(content) /\ Len(content) > MaxContentLength
    THEN Result("TooLong", "", Null, chs, msgs)
    ELSE IF channel \notin DOMAIN chs THEN Result("ChannelNotFound", "", Null, chs, msgs)
    ELSE IF ~IsMember(chs, channel, u) THEN Result("NotMember", "", Null, chs, msgs)
    ELSE IF file /\ ~AttachmentAllowed(chs[channel])
    THEN Result("AttachmentNotAllowed", "", Null, chs, msgs)
    ELSE IF TruthyId(parent) /\ parent \notin DOMAIN msgs
    THEN Result("ParentNotFound", "", Null, chs, msgs)
    ELSE IF TruthyId(parent) /\ HttpDepthExceeded(msgs, parent)
    THEN Result("ThreadDepthExceeded", "", Null, chs, msgs)
    ELSE IF file /\ ~upload THEN Result("UploadFailed", "", Null, chs, msgs)
    ELSE MessageCreate(chs, msgs, nid,
            NewMessage(IF TruthyString(content) THEN content ELSE <<>>, u, channel,
                       IF TruthyId(parent) THEN parent ELSE Null,
                       IF file THEN "url" ELSE NoFileUrl, t))

\* exports.editMessage
HttpEditMessage(chs, msgs, t, u, id, content) ==
    IF IsBlank(content) THEN Result("EmptyContent", "", Null, chs, msgs)
    ELSE IF Len(content) > MaxContentLength THEN Result("TooLong", "", Null, chs, msgs)
    ELSE IF id \notin DOMAIN msgs THEN Result("MessageNotFound", "", Null, chs, msgs)
    ELSE IF ~StrictEquals(StringOf(msgs[id].author_id), StringOf(u))
    THEN Result("NotAuthor", "", Null, chs, msgs)
    ELSE IF ~CanBeEdited(msgs[id], t) THEN Result("EditWindowExpired", "", Null, chs, msgs)
    ELSE Result("none", "edited", id, chs,
                [msgs EXCEPT ![id].content = content, ![id].is_edited = TRUE])

\* exports.deleteMessage
HttpDeleteMessage(chs, msgs, u, id) ==
    IF id \notin DOMAIN msgs THEN Result("MessageNotFound", "", Null, chs, msgs)
    ELSE IF ~StrictEquals(StringOf(msgs[id].author_id), StringOf(u))
    THEN Result("NotAuthor", "", Null, chs, msgs)
    ELSE Result("none", "deleted", id, chs,
                [msgs EXCEPT ![id].is_deleted = TRUE, ![id].content = Tombstone])

\* the part shared by addReaction, removeReaction and pinMessage: find the message,
\* refuse a deleted one, find the channel, refuse a non-member
HttpGate(chs, msgs, u, id) ==
    IF id \notin DOMAIN msgs THEN "MessageNotFound"
    ELSE IF msgs[id].is_deleted THEN "Deleted"
    ELSE IF msgs[id].channel_id \notin DOMAIN chs THEN "ChannelNotFound"
    ELSE IF ~IsMember(chs, msgs[id].channel_id, u) THEN "NotMember"
    ELSE ""

\* exports.addReaction
HttpAddReaction(chs, msgs, u, id, emoji) ==
    IF ~TruthyEmoji(emoji) THEN Result("EmojiRequired", "", Null, chs, msgs)
    ELSE IF HttpGate(chs, msgs, u, id) # ""
    THEN Result(HttpGate(chs, msgs, u, id), "", Null, chs, msgs)
    ELSE Result("none", "reaction_added", id, chs,
                [msgs EXCEPT ![id] = WithReaction(@, emoji, u)])

\* exports.removeReaction (the emoji is a path segment, never missing)
HttpRemoveReaction(chs, msgs, u, id, emoji) ==
    IF HttpGate(chs, msgs, u, id) # ""
    THEN Result(HttpGate(chs, msgs, u, id), "", Null, chs, msgs)
    ELSE Result("none", "reaction_removed", id, chs,
                [msgs EXCEPT ![id] = WithoutReaction(@, emoji, u)])

\* exports.pinMessage
HttpPinMessage(chs, msgs, u, id) ==
    IF HttpGate(chs, msgs, u, id) # ""
    THEN Result(HttpGate(chs, msgs, u, id), "", Null, chs, msgs)
    ELSE Result("none", "pinned", id, chs, [msgs EXCEPT ![id].is_pinned = TRUE])

\* exports.unpinMessage
HttpUnpinMessage(chs, msgs, u, id) ==
    IF id \notin DOMAIN msgs THEN Result("MessageNotFound", "", Null, chs, msgs)
    ELSE IF ~msgs[id].is_pinned THEN Result("NotPinned", "", Null, chs, msgs)
    ELSE IF msgs[id].channel_id \notin DOMAIN chs
    THEN Result("ChannelNotFound", "", Null, chs, msgs)
    ELSE IF ~IsMember(chs, msgs[id].channel_id, u) THEN Result("NotMember", "", Null, chs, msgs)
    ELSE Result("none", "unpinned", id, chs, [msgs EXCEPT ![id].is_pinned = FALSE])

-----------------------------------------------------------------------------
(* Socket event handlers (services/socketService.js) *)

\* socket.on('message:send')
SockSendMessage(chs, msgs, nid, t, u, content, channel, parent) ==
    MessageCreate(chs, msgs, nid,
        NewMessage(content, u, channel,
                   IF TruthyId(parent) THEN parent ELSE Null, NoFileUrl, t))

\* message.author_id.toString() !== socket.user.id, where socket.user.id is user._id
SockIsAuthor(msg, u) == StrictEquals(StringOf(msg.author_id), ObjectIdOf(u))

\* socket.on('message:edit')
SockEditMessage(chs, msgs, t, u, id, content) ==
    IF id \notin DOMAIN msgs THEN Result("MessageNotFound", "", Null, chs, msgs)
    ELSE IF ~SockIsAuthor(msgs[id], u) THEN Result("NotAuthor", "", Null, chs, msgs)
    ELSE IF ~CanBeEdited(msgs[id], t) THEN Result("EditWindowExpired", "", Null, chs, msgs)
    ELSE IF content # NoString /\ Len(content) > MaxContentLength
    THEN Result("ValidationError", "", Null, chs, msgs)
    ELSE Result("none", "edited", id, chs,
                [msgs EXCEPT ![id].content = content, ![id].is_edited = TRUE])

\* socket.on('message:delete')
SockDeleteMessage(chs, msgs, u, id) ==
    IF id \notin DOMAIN msgs THEN Result("MessageNotFound", "", Null, chs, msgs)
    ELSE IF ~SockIsAuthor(msgs[id], u) THEN Result("NotAuthor", "", Null, chs, msgs)
    ELSE Result("none", "deleted", id, chs,
                [msgs EXCEPT ![id].is_deleted = TRUE, ![id].content = Tombstone])

\* socket.on('message:add_reaction')
SockAddReaction(chs, msgs, u, id, emoji) ==
    IF id \notin DOMAIN msgs THEN Result("MessageNotFound", "", Null, chs, msgs)
    ELSE IF msgs[id].is_deleted THEN Result("Deleted", "", Null, chs, msgs)
    ELSE IF ~HasReaction(msgs[id], emoji, u) /\ ~ReactionValidate(emoji)
    THEN Result("ValidationError", "", Null, chs, msgs)
    ELSE Result("none", "reaction_added", id, chs,
                [msgs EXCEPT ![id] = WithReaction(@, emoji, u)])

\* socket.on('message:remove_reaction')
SockRemoveReaction(chs, msgs, u, id, emoji) ==
    IF id \notin DOMAIN msgs THEN Result("MessageNotFound", "", Null, chs, msgs)
    ELSE IF msgs[id].is_deleted THEN Result("Deleted", "", Null, chs, msgs)
    ELSE Result("none", "reaction_removed", id, chs,
                [msgs EXCEPT ![id] = WithoutReaction(@, emoji, u)])

\* socket.on('message:pin')
SockPinMessage(chs, msgs, u, id) ==
    IF id \notin DOMAIN msgs THEN Result("MessageNotFound", "", Null, chs, msgs)
    ELSE IF msgs[id].is_deleted THEN Result("Deleted", "", Null, chs, msgs)
    ELSE Result("none", "pinned", id, chs, [msgs EXCEPT ![id].is_pinned = TRUE])

\* socket.on('message:unpin')
SockUnpinMessage(chs, msgs, u, id) ==
    IF id \notin DOMAIN msgs THEN Result("MessageNotFound", "", Null, chs, msgs)
    ELSE IF ~msgs[id].is_pinned THEN Result("NotPinned", "", Null, chs, msgs)
    ELSE Result("none", "unpinned", id, chs, [msgs EXCEPT ![id].is_pinned = FALSE])

-----------------------------------------------------------------------------
(* Mentions (processMentions) and the Notification model *)

\* User.display_name: at least 2 characters, not unique by schema, distinct here
DisplayName(u) ==
    CASE u = 1 -> << "A", "l" >>
      [] u = 2 -> << "D", "a", "n" >>
      [] OTHER -> << "G", "a", "l" >>

\* \w
WordChars == LowerLetters \cup {"A", "D", "G"} \cup DigitChars \cup {"_"}

\* the longest prefix of s matching \w*
RECURSIVE TakeWord(_)
TakeWord(s) ==
    IF s = <<>> \/ Head(s) \notin WordChars THEN <<>>
    ELSE <<Head(s)>> \o TakeWord(Tail(s))

\* content.match(/@(\w+)/g) || [], each match without its @
RECURSIVE Mentions(_)
Mentions(s) ==
    IF s = <<>> THEN <<>>
    ELSE IF Head(s) = "@" /\ TakeWord(Tail(s)) # <<>>
    THEN <<TakeWord(Tail(s))>> \o Mentions(SubSeq(s, Len(TakeWord(Tail(s))) + 2, Len(s)))
    ELSE Mentions(Tail(s))

\* User.findOne({display_name: {$regex: new RegExp(`^${username}$`, 'i')}})
FindUserByDisplayName(username) ==
    IF \E u \in Users : ToLowerCase(DisplayName(u)) = ToLowerCase(username)
    THEN CHOOSE u \in Users : ToLowerCase(DisplayName(u)) = ToLowerCase(username)
    ELSE Null

\* Document.prototype.toString of a populated document: the text of its inspection,
\* which is no 24-digit id string
InspectString(id) == [kind |-> "string", val |-> Null - id]

\* user._id.toString() !== message.author_id.toString(), author_id being populated
MentionIsOther(user, author) == ~StrictEquals(StringOf(user), InspectString(author))

NewNotification(recipient, sender, message, channel, t) ==
    [recipient_id |-> recipient, sender_id |-> sender, type |-> "mention",
     message_id |-> message, channel_id |-> channel, is_read |-> FALSE, created_at |-> t]

\* the processMentions call message:send makes on the message it stored: it runs on
\* after its first await only if the content has a mention
MentionJobs(via, r) ==
    IF via = "socket" /\ r.note = "sent" /\ r.messages[r.id].content # NoString
       /\ Mentions(r.messages[r.id].content) # <<>>
    THEN << [message_id |-> r.id, author_id |-> r.messages[r.id].author_id,
             channel_id |-> r.messages[r.id].channel_id,
             mentions |-> Mentions(r.messages[r.id].content)] >>
    ELSE <<>>

\* the notifications after one turn of the loop of processMentions
AfterMention(ns, job, t) ==
    LET user == FindUserByDisplayName(Head(job.mentions))
    IN IF user # Null /\ MentionIsOther(user, job.author_id)
       THEN Append(ns, NewNotification(user, job.author_id, job.message_id,
                                       job.channel_id, t))
       ELSE ns

\* the jobs with the first mention of job j done
RestOfJobs(js, j) ==
    IF Len(js[j].mentions) = 1
    THEN SubSeq(js, 1, j - 1) \o SubSeq(js, j + 1, Len(js))
    ELSE [js EXCEPT ![j].mentions = Tail(@)]

\* the condition under which a turn of the loop creates a notification and sends mail
MentionNotifies(job) ==
    /\ FindUserByDisplayName(Head(job.mentions)) # Null
    /\ MentionIsOther(FindUserByDisplayName(Head(job.mentions)), job.author_id)

\* await emailService.sendMentionEmail({recipient, sender, message, channel}): the stub
\* resolves, unless reading channel.name throws because Channel.findById found none
EmailResolves(chs, job) == job.channel_id \in DOMAIN chs

\* the mail log after one turn of the loop
AfterEmail(ms, chs, job) ==
    IF MentionNotifies(job)
    THEN Append(ms, [message_id |-> job.message_id,
                     recipient_id |-> FindUserByDisplayName(Head(job.mentions)),
                     ok |-> EmailResolves(chs, job)])
    ELSE ms

\* (mutant: no try/catch around the email, a rejection reaches the catch of
\* processMentions and ends the loop)
EmailFailureEndsLoop_outer(ok) == ~ok

\* try { await sendMentionEmail } catch (emailError) { console.error }: the loop goes on
EmailFailureEndsLoop(ok) == FALSE

\* for (const mention of mentions) { ... }: one turn of the loop
ProcessMentionStep(j) ==
    /\ j \in 1..Len(jobs)
    /\ notifications' = AfterMention(notifications, jobs[j], now)
    /\ mails' = AfterEmail(mails, channels, jobs[j])
    /\ jobs' = IF MentionNotifies(jobs[j])
                  /\ EmailFailureEndsLoop(EmailResolves(channels, jobs[j]))
               THEN SubSeq(jobs, 1, j - 1) \o SubSeq(jobs, j + 1, Len(jobs))
               ELSE RestOfJobs(jobs, j)
    /\ UNCHANGED <<channels, nextChannelId, messages, nextMessageId, now, ticks, reqs,
                   last, users, writes, sessions, uploads, log>>

-----------------------------------------------------------------------------
(* Message requests over both transports, handled one at a time *)

\* an ObjectId no document has
UnknownId == Null - 1

Hi == << "h", "i" >>
LongContent == [i \in 1..(MaxContentLength + 1) |-> "x"]
ThumbsUp == "+1"

\* the store the message requests start from: a public channel created by the first
\* user and joined by the second, the third user is no member of it
MsgChannels ==
    JoinChannel(CreateChannel(<<>>, <<>>, 1, 1, <<"d", "e", "v">>, Undefined).channels,
                <<>>, 2, 1).channels

InitMsg ==
    /\ channels = MsgChannels
    /\ nextChannelId = 2
    /\ messages = <<>>
    /\ nextMessageId = 1
    /\ now = 0
    /\ ticks = 0
    /\ reqs = [s \in Slots |-> Idle]
    /\ last = NoResponse
    /\ InitOutside

\* the file uploadToCloudinary stored for the message a create has stored
StoredUpload(r) ==
    IF r.note = "sent" /\ r.messages[r.id].file_url # NoFileUrl
    THEN <<r.messages[r.id].file_url>>
    ELSE <<>>

\* a message handler's result written to the store, and its response
MsgCommit(cap, op, via, u, target, r) ==
    /\ r.note = "sent" => nextMessageId <= cap
    /\ messages' = r.messages
    /\ nextMessageId' = IF r.note = "sent" THEN nextMessageId + 1 ELSE nextMessageId
    /\ last' = Response(op, via, u, target, r, Null, FALSE)
    /\ jobs' = jobs \o MentionJobs(via, r)
    /\ uploads' = uploads \o StoredUpload(r)
    /\ UNCHANGED <<channels, nextChannelId, now, ticks, reqs, notifications, users,
                   writes, sessions, mails, log>>

\* POST /api/messages
HttpCreateMessageReq(cap, u, content, channel, parent, file, upload) ==
    \E r \in {HttpCreateMessage(channels, messages, nextMessageId, now, u, content,
                                channel, parent, file, upload)} :
       MsgCommit(cap, "createMessage", "http", u, channel, r)

\* PATCH /api/messages/:id
HttpEditMessageReq(u, id, content) ==
    \E r \in {HttpEditMessage(channels, messages, now, u, id, content)} :
       MsgCommit(0, "editMessage", "http", u, id, r)

\* DELETE /api/messages/:id
HttpDeleteMessageReq(u, id) ==
    \E r \in {HttpDeleteMessage(channels, messages, u, id)} :
       MsgCommit(0, "deleteMessage", "http", u, id, r)

\* POST /api/messages/:id/reactions
HttpAddReactionReq(u, id, emoji) ==
    \E r \in {HttpAddReaction(channels, messages, u, id, emoji)} :
       MsgCommit(0, "addReaction", "http", u, id, r)

\* DELETE /api/messages/:id/reactions/:emoji
HttpRemoveReactionReq(u, id, emoji) ==
    \E r \in {HttpRemoveReaction(channels, messages, u, id, emoji)} :
       MsgCommit(0, "removeReaction", "http", u, id, r)

\* POST /api/messages/:id/pin
HttpPinMessageReq(u, id) ==
    \E r \in {HttpPinMessage(channels, messages, u, id)} :
       MsgCommit(0, "pinMessage", "http", u, id, r)

\* POST /api/messages/:id/unpin
HttpUnpinMessageReq(u, id) ==
    \E r \in {HttpUnpinMessage(channels, messages, u, id)} :
       MsgCommit(0, "unpinMessage", "http", u, id, r)

SockSendMessageEvt(cap, u, content, channel, parent) ==
    \E r \in {SockSendMessage(channels, messages, nextMessageId, now, u, content,
                              channel, parent)} :
       MsgCommit(cap, "createMessage", "socket", u, channel, r)

SockEditMessageEvt(u, id, content) ==
    \E r \in {SockEditMessage(channels, messages, now, u, id, content)} :
       MsgCommit(0, "editMessage", "socket", u, id, r)

SockDeleteMessageEvt(u, id) ==
    \E r \in {SockDeleteMessage(channels, messages, u, id)} :
       MsgCommit(0, "deleteMessage", "socket", u, id, r)

SockAddReactionEvt(u, id, emoji) ==
    \E r \in {SockAddReaction(channels, messages, u, id, emoji)} :
       MsgCommit(0, "addReaction", "socket", u, id, r)

SockRemoveReactionEvt(u, id, emoji) ==
    \E r \in {SockRemoveReaction(channels, messages, u, id, emoji)} :
       MsgCommit(0, "removeReaction", "socket", u, id, r)

SockPinMessageEvt(u, id) ==
    \E r \in {SockPinMessage(channels, messages, u, id)} :
       MsgCommit(0, "pinMessage", "socket", u, id, r)

SockUnpinMessageEvt(u, id) ==
    \E r \in {SockUnpinMessage(channels, messages, u, id)} :
       MsgCommit(0, "unpinMessage", "socket", u, id, r)

MsgCap == MaxMessageIds
MsgContents == {<<>>, Hi}
MsgIds == DOMAIN messages \cup {UnknownId}

NextMsg ==
    \/ \E u \in Users, content \in MsgContents :
          HttpCreateMessageReq(MsgCap, u, content, 1, Null, FALSE, TRUE)
    \/ \E u \in Users, id \in MsgIds, content \in MsgContents :
          HttpEditMessageReq(u, id, content)
    \/ \E u \in Users, id \in MsgIds : HttpDeleteMessageReq(u, id)
    \/ \E u \in Users, id \in MsgIds : HttpAddReactionReq(u, id, ThumbsUp)
    \/ \E u \in Users, id \in MsgIds : HttpRemoveReactionReq(u, id, ThumbsUp)
    \/ \E u \in Users, id \in MsgIds : HttpPinMessageReq(u, id)
    \/ \E u \in Users, id \in MsgIds : HttpUnpinMessageReq(u, id)
    \/ \E u \in Users, content \in MsgContents :
          SockSendMessageEvt(MsgCap, u, content, 1, Null)
    \/ \E u \in Users, id \in MsgIds, content \in MsgContents :
          SockEditMessageEvt(u, id, content)
    \/ \E u \in Users, id \in MsgIds : SockDeleteMessageEvt(u, id)
    \/ \E u \in Users, id \in MsgIds : SockAddReactionEvt(u, id, ThumbsUp)
    \/ \E u \in Users, id \in MsgIds : SockRemoveReactionEvt(u, id, ThumbsUp)
    \/ \E u \in Users, id \in MsgIds : SockPinMessageEvt(u, id)
    \/ \E u \in Users, id \in MsgIds : SockUnpinMessageEvt(u, id)
    \/ JoinChannelReq(2, 1)
    \/ LeaveChannelReq(2, 1)

SpecMsg == InitMsg /\ [][NextMsg]_vars

-----------------------------------------------------------------------------
(* Threads: messages created over both transports, one request at a time *)

\* "max 3 levels"
MaxThreadLevels == 3
ThreadCap == MaxThreadLevels + 1

ParentInputs == {Null} \cup DOMAIN messages

NextThread ==
    \/ \E u \in Users, parent \in ParentInputs :
          HttpCreateMessageReq(ThreadCap, u, Hi, 1, parent, FALSE, TRUE)
    \/ \E u \in Users, parent \in ParentInputs :
          SockSendMessageEvt(ThreadCap, u, Hi, 1, parent)

SpecThread == InitMsg /\ [][NextThread]_vars

-----------------------------------------------------------------------------
(* Claims on the message operations *)

\* the error kinds of the specification's taxonomy
ErrKind(err) ==
    CASE err = "none" -> "Success"
      [] err \in {"MessageNotFound", "ChannelNotFound", "ParentNotFound"} -> "NotFound"
      [] err \in {"NotMember", "NotAuthor"} -> "NotAuthorized"
      [] err \in {"EmptyContent", "TooLong", "EmojiRequired", "ValidationError"} -> "Validation"
      [] err \in {"EditWindowExpired", "ThreadDepthExceeded", "AttachmentNotAllowed"}
            -> "PolicyViolation"
      [] err = "Deleted" -> "Deleted"
      [] err = "NotPinned" -> "Conflict"
      [] OTHER -> "Transient"

SameOutcome(h, s) ==
    /\ ErrKind(h.err) = ErrKind(s.err)
    /\ h.messages = s.messages
    /\ h.channels = s.channels

AnyContent == {NoString, <<>>, <<" ">>, Hi, LongContent}
AnyChannel == DOMAIN channels \cup {nextChannelId}
AnyMessage == DOMAIN messages \cup {UnknownId}
AnyParent == {Null} \cup AnyMessage
AnyEmoji == {ThumbsUp, Undefined}

\* C1: for each message operation (create, edit, delete, addReaction, removeReaction,
\* pin, unpin), from the same store with the same requester and arguments, the HTTP
\* handler and the socket event handler give the same outcome (success, or the same
\* error kind) and leave the message and channel stores in the same state.
C1_TransportsAgree ==
    \A u \in Users :
       /\ \A content \in AnyContent, c \in AnyChannel, p \in AnyParent :
             SameOutcome(HttpCreateMessage(channels, messages, nextMessageId, now, u,
                                           content, c, p, FALSE, TRUE),
                         SockSendMessage(channels, messages, nextMessageId, now, u,
                                         content, c, p))
       /\ \A id \in AnyMessage :
             /\ \A content \in AnyContent :
                   SameOutcome(HttpEditMessage(channels, messages, now, u, id, content),
                               SockEditMessage(channels, messages, now, u, id, content))
             /\ SameOutcome(HttpDeleteMessage(channels, messages, u, id),
                            SockDeleteMessage(channels, messages, u, id))
             /\ \A emoji \in AnyEmoji :
                   SameOutcome(HttpAddReaction(channels, messages, u, id, emoji),
                               SockAddReaction(channels, messages, u, id, emoji))
             /\ SameOutcome(HttpRemoveReaction(channels, messages, u, id, ThumbsUp),
                            SockRemoveReaction(channels, messages, u, id, ThumbsUp))
             /\ SameOutcome(HttpPinMessage(channels, messages, u, id),
                            SockPinMessage(channels, messages, u, id))
             /\ SameOutcome(HttpUnpinMessage(channels, messages, u, id),
                            SockUnpinMessage(channels, messages, u, id))

GatedOps == {"createMessage", "addReaction", "removeReaction", "pinMessage", "unpinMessage"}

\* the channel of the message the answered request was about (Null: no such message)
RequestChannel(resp) ==
    IF resp.op = "createMessage" THEN resp.target
    ELSE IF resp.target \in DOMAIN messages THEN messages[resp.target].channel_id
    ELSE Null

\* the request the step answers was a member's, or was rejected and changed nothing
GatedStep ==
    \/ IsMember(channels, RequestChannel(last'), last'.user)
    \/ (last'.err # "none" /\ messages' = messages /\ channels' = channels)

\* C2: create, addReaction, removeReaction, pin and unpin, over HTTP or over the
\* socket, succeed only if the requester is a member of the message's channel at that
\* moment; a non-member's request is rejected and changes nothing.
C2_MembersOnly ==
    [][(last'.op \in GatedOps /\ RequestChannel(last') # Null) => GatedStep]_vars

\* the number of thread_parent links above message m
RECURSIVE ParentLinks(_, _)
ParentLinks(msgs, m) ==
    IF msgs[m].thread_parent_id \notin DOMAIN msgs THEN 0
    ELSE 1 + ParentLinks(msgs, msgs[m].thread_parent_id)

\* C3: a reply to a message that is itself a reply to a reply is rejected, so no
\* stored message has more than two thread_parent links above it (thread depth at
\* most 3), whichever transport created it.
C3_ThreadDepthAtMostThree ==
    \A m \in DOMAIN messages : ParentLinks(messages, m) <= MaxThreadLevels - 1

-----------------------------------------------------------------------------
(* Message handlers interleaved at their storage awaits *)

\* the frame of a message handler: its arguments and the document findById gave it
MsgFrame(op, via, pc, u, target, content, emoji, doc) ==
    [op |-> op, pc |-> pc, user |-> u, name |-> <<>>, type |-> "", target |-> target,
     raced |-> FALSE, via |-> via, content |-> content, emoji |-> emoji, doc |-> doc]

NoDoc == [is_deleted |-> FALSE]

MsgRejected(err) == Result(err, "", Null, channels, messages)

\* the handler in slot s answers without writing
MsgAnswer(s, r) ==
    /\ reqs' = [reqs EXCEPT ![s] = Idle]
    /\ last' = Response(reqs[s].op, reqs[s].via, reqs[s].user, reqs[s].target, r, Null, FALSE)
    /\ UNCHANGED <<channels, nextChannelId, messages, nextMessageId, now, ticks, outside>>

MsgGoto(s, pc, doc) ==
    /\ reqs' = [reqs EXCEPT ![s].pc = pc, ![s].doc = doc]
    /\ UNCHANGED <<channels, nextChannelId, messages, nextMessageId, now, ticks, last,
                   outside>>

\* the handler in slot s writes msgs and answers success
MsgSave(s, note, msgs) ==
    /\ messages' = msgs
    /\ reqs' = [reqs EXCEPT ![s] = Idle]
    /\ last' = Response(reqs[s].op, reqs[s].via, reqs[s].user, reqs[s].target,
                        Result("none", note, reqs[s].target, channels, msgs), Null, FALSE)
    /\ UNCHANGED <<channels, nextChannelId, nextMessageId, now, ticks, outside>>

\* the reactions message id holds, and those the handlers in flight may still push
ReactionsInSight(id) ==
    (IF id \in DOMAIN messages THEN Len(messages[id].reactions) ELSE 0)
    + Cardinality({t \in Slots : reqs[t].op = "addReaction" /\ reqs[t].target = id})

\* addReaction / message:add_reaction arrives: over HTTP the emoji is checked first
StartAddReaction(s, via, u, id, emoji) ==
    /\ reqs[s].pc = "idle"
    /\ ReactionsInSight(id) < MaxReactions
    /\ IF via = "http" /\ ~TruthyEmoji(emoji)
       THEN /\ last' = Response("addReaction", via, u, id, MsgRejected("EmojiRequired"),
                                Null, FALSE)
            /\ UNCHANGED reqs
       ELSE /\ reqs' = [reqs EXCEPT ![s] =
                          MsgFrame("addReaction", via, "findMessage", u, id, NoString,
                                   emoji, NoDoc)]
            /\ UNCHANGED last
    /\ UNCHANGED <<channels, nextChannelId, messages, nextMessageId, now, ticks, outside>>

\* editMessage / message:edit arrives: over HTTP the content is checked first
StartEditMessage(s, via, u, id, content) ==
    /\ reqs[s].pc = "idle"
    /\ IF via = "http" /\ (IsBlank(content) \/ Len(content) > MaxContentLength)
       THEN /\ last' = Response("editMessage", via, u, id,
                                MsgRejected(IF IsBlank(content) THEN "EmptyContent"
                                            ELSE "TooLong"), Null, FALSE)
            /\ UNCHANGED reqs
       ELSE /\ reqs' = [reqs EXCEPT ![s] =
                          MsgFrame("editMessage", via, "findMessage", u, id, content,
                                   Undefined, NoDoc)]
            /\ UNCHANGED last
    /\ UNCHANGED <<channels, nextChannelId, messages, nextMessageId, now, ticks, outside>>

\* the author check of the transport of frame f
IsAuthor(f, msg) ==
    IF f.via = "http" THEN StrictEquals(StringOf(msg.author_id), StringOf(f.user))
    ELSE SockIsAuthor(msg, f.user)

\* the checks a handler makes on the document findById returned, "" when it goes on
LoadedCheck(f, t) ==
    IF f.target \notin DOMAIN messages THEN "MessageNotFound"
    ELSE IF f.op \in {"editMessage", "deleteMessage"} /\ ~IsAuthor(f, messages[f.target])
    THEN "NotAuthor"
    ELSE IF f.op = "editMessage" /\ ~CanBeEdited(messages[f.target], t)
    THEN "EditWindowExpired"
    ELSE IF f.op \in {"addReaction", "removeReaction", "pinMessage"}
            /\ messages[f.target].is_deleted
    THEN "Deleted"
    ELSE IF f.op = "unpinMessage" /\ ~messages[f.target].is_pinned THEN "NotPinned"
    ELSE ""

\* await Message.findById(id), and the checks up to the next await
FindMessageStep(s) ==
    /\ reqs[s].pc = "findMessage"
    /\ IF LoadedCheck(reqs[s], now) # ""
       THEN MsgAnswer(s, MsgRejected(LoadedCheck(reqs[s], now)))
       ELSE MsgGoto(s, IF reqs[s].op = "addReaction" /\ reqs[s].via = "http"
                       THEN "findChannel" ELSE "save",
                    messages[reqs[s].target])

\* await Channel.findById(message.channel_id), and the membership check
FindChannelStep(s) ==
    /\ reqs[s].pc = "findChannel"
    /\ IF reqs[s].doc.channel_id \notin DOMAIN channels
       THEN MsgAnswer(s, MsgRejected("ChannelNotFound"))
       ELSE IF ~IsMember(channels, reqs[s].doc.channel_id, reqs[s].user)
       THEN MsgAnswer(s, MsgRejected("NotMember"))
       ELSE MsgGoto(s, "save", reqs[s].doc)

\* message.addReaction: nothing is saved when the loaded document has the reaction,
\* else reactions.push and save, which sends a $push of the new element
SaveReactionStep(s) ==
    /\ reqs[s].pc = "save" /\ reqs[s].op = "addReaction"
    /\ IF HasReaction(reqs[s].doc, reqs[s].emoji, reqs[s].user)
       THEN MsgSave(s, "reaction_added", messages)
       ELSE IF ~ReactionValidate(reqs[s].emoji)
       THEN MsgAnswer(s, MsgRejected("ValidationError"))
       ELSE MsgSave(s, "reaction_added",
                    [messages EXCEPT ![reqs[s].target].reactions =
                        Append(@, [emoji |-> reqs[s].emoji, user_id |-> reqs[s].user])])

\* message.save() of an edit: a $set of the modified paths content and is_edited
SaveEditStep(s) ==
    /\ reqs[s].pc = "save" /\ reqs[s].op = "editMessage"
    /\ IF ~MessageValidate([reqs[s].doc EXCEPT !.content = reqs[s].content])
       THEN MsgAnswer(s, MsgRejected("ValidationError"))
       ELSE MsgSave(s, "edited",
                    [messages EXCEPT ![reqs[s].target].content = reqs[s].content,
                                     ![reqs[s].target].is_edited = TRUE])

\* the store the interleaved handlers start from: one message of the first user
RaceMessages ==
    HttpCreateMessage(MsgChannels, <<>>, 1, 0, 1, Hi, 1, Null, FALSE, TRUE).messages

InitMsgRace ==
    /\ channels = MsgChannels
    /\ nextChannelId = 2
    /\ messages = RaceMessages
    /\ nextMessageId = 2
    /\ now = 0
    /\ ticks = 0
    /\ reqs = [s \in Slots |-> Idle]
    /\ last = NoResponse
    /\ InitOutside

Transports == {"http", "socket"}

\* the author of the message, and a user who is no member of its channel
RaceUsers == {1, 3}

NextMsgRace ==
    \/ \E s \in Slots, via \in Transports, u \in RaceUsers :
          StartAddReaction(s, via, u, 1, ThumbsUp)
    \/ \E s \in Slots, via \in Transports, u \in RaceUsers :
          StartEditMessage(s, via, u, 1, Hi)
    \/ \E s \in Slots : FindMessageStep(s)
    \/ \E s \in Slots : FindChannelStep(s)
    \/ \E s \in Slots : SaveReactionStep(s)
    \/ \E s \in Slots : SaveEditStep(s)
    \/ \E u \in RaceUsers : HttpDeleteMessageReq(u, 1)
    \/ \E u \in RaceUsers : HttpRemoveReactionReq(u, 1, ThumbsUp)

SpecMsgRace == InitMsgRace /\ [][NextMsgRace]_vars

\* C11: no message holds two reactions with the same (emoji, user) pair, also when
\* two addReaction requests for the same pair on the same message interleave between
\* loading the message and saving it.
C11_NoDuplicateReactions ==
    \A m \in DOMAIN messages :
       \A i, j \in 1..Len(messages[m].reactions) :
          (/\ messages[m].reactions[i].emoji = messages[m].reactions[j].emoji
           /\ messages[m].reactions[i].user_id = messages[m].reactions[j].user_id)
             => i = j

\* C13: deleted is terminal: a message with is_deleted = true is, in the next state,
\* still stored with is_deleted = true and the tombstone as its content, also when an
\* edit that read the message before the delete writes after it.
C13_DeletedIsTerminal ==
    [][\A m \in DOMAIN messages :
          messages[m].is_deleted =>
             /\ m \in DOMAIN messages'
             /\ messages'[m].is_deleted
             /\ messages'[m].content = Tombstone]_vars

-----------------------------------------------------------------------------
(* Edits as time passes, one request at a time *)

\* the clock moves on by d seconds
Tick(d) ==
    /\ ticks < MaxTicks
    /\ now' = now + d
    /\ ticks' = ticks + 1
    /\ UNCHANGED <<channels, nextChannelId, messages, nextMessageId, reqs, last, outside>>

TickInputs == {1, EditWindow - 1}
Members == {1, 2}

NextEdit ==
    \/ \E d \in TickInputs : Tick(d)
    \/ \E u \in Members : HttpCreateMessageReq(MaxMessageIds, u, Hi, 1, Null, FALSE, TRUE)
    \/ \E u \in Members, id \in DOMAIN messages, content \in MsgContents :
          HttpEditMessageReq(u, id, content)
    \/ \E u \in Members, id \in DOMAIN messages : SockEditMessageEvt(u, id, Hi)
    \/ \E u \in Members, id \in DOMAIN messages : HttpDeleteMessageReq(u, id)

SpecEdit == InitMsg /\ [][NextEdit]_vars

\* the step is no tick of the clock: it answers an HTTP edit with valid content, sent
\* by the author of a stored message that is not deleted
AuthorEditStep ==
    /\ now' = now
    /\ last'.op = "editMessage" /\ last'.via = "http"
    /\ last'.err \notin {"EmptyContent", "TooLong"}
    /\ last'.target \in DOMAIN messages
    /\ messages[last'.target].author_id = last'.user
    /\ ~messages[last'.target].is_deleted

-----------------------------------------------------------------------------
(* Claims on deleted messages *)

\* the step answers a request about a stored message that is deleted
OnDeletedStep(ops) ==
    /\ last'.op \in ops
    /\ last'.target \in DOMAIN messages
    /\ messages[last'.target].is_deleted

\* C14: on a message whose is_deleted flag is true, every edit, addReaction,
\* removeReaction, pin and unpin request is rejected over both transports and leaves
\* the message's content, reactions and is_pinned flag unchanged.
C14_DeletedRejectsAll ==
    [][OnDeletedStep(MessageOps \ {"createMessage", "deleteMessage"}) =>
          /\ last'.err # "none"
          /\ messages'[last'.target] = messages[last'.target]]_vars

\* C15: message:deleted is published at most once for a message: the delete that
\* sets is_deleted publishes it, so a delete request on a message that is already
\* deleted publishes nothing.
C15_DeletedPublishedOnce ==
    [][OnDeletedStep({"deleteMessage"}) => last'.emitted = <<>>]_vars

-----------------------------------------------------------------------------
(* Mentions: messages created over both transports, notifications created detached *)

\* "@dan": the display name is matched whatever its case
Mention(u) == <<"@">> \o ToLowerCase(DisplayName(u))

MentionContents ==
    {Mention(u) : u \in Users} \cup {Mention(2) \o <<" ">> \o Mention(2)}

MentionCap == MaxMessageIds + 1

\* data.channel_id of message:send: the channel, or an id no channel has
MentionChannels == {1, UnknownId}

ProcessMentions == \E j \in 1..Len(jobs) : ProcessMentionStep(j)

NextMention ==
    \/ \E u \in Users, content \in MentionContents :
          HttpCreateMessageReq(MentionCap, u, content, 1, Null, FALSE, TRUE)
    \/ \E u \in Users, content \in MentionContents, channel \in MentionChannels :
          SockSendMessageEvt(MentionCap, u, content, channel, Null)
    \/ ProcessMentions

SpecMention == InitMsg /\ [][NextMention]_vars

\* a detached processMentions call goes on whenever it can
SpecMentionLive == SpecMention /\ WF_vars(ProcessMentions)

\* the mention notifications of message m for recipient u
MentionNotifications(m, u) ==
    {i \in 1..Len(notifications) :
        /\ notifications[i].type = "mention"
        /\ notifications[i].message_id = m
        /\ notifications[i].recipient_id = u}

\* C16: processing the mentions of one message creates at most one mention
\* Notification per recipient, also when the text has the same @name twice.
C16_OneNotificationPerRecipient ==
    \A m \in DOMAIN messages, u \in Users : Cardinality(MentionNotifications(m, u)) <= 1

\* C17: no mention Notification has its recipient equal to its sender.
C17_NoSelfNotification ==
    \A i \in 1..Len(notifications) :
       notifications[i].recipient_id # notifications[i].sender_id

\* stored message m mentions user u, another member of its channel than its author
MentionsMember(m, u) ==
    /\ m \in DOMAIN messages
    /\ u # messages[m].author_id
    /\ IsMember(channels, messages[m].channel_id, u)
    /\ \E k \in 1..Len(Mentions(messages[m].content)) :
          FindUserByDisplayName(Mentions(messages[m].content)[k]) = u

\* C18: after every successful message create, over HTTP as well as over the socket,
\* whose content mentions another member of the channel, a mention Notification for
\* that member is eventually created.
C18_MentionEventuallyNotified ==
    \A m \in 1..MentionCap, u \in Users :
       MentionsMember(m, u) ~> (MentionNotifications(m, u) # {})

\* C19: every mention Notification's recipient is a member of the channel of the
\* message that mentioned them.
C19_RecipientIsMember ==
    \A i \in 1..Len(notifications) :
       IsMember(channels, notifications[i].channel_id, notifications[i].recipient_id)

-----------------------------------------------------------------------------
(* Presence: socket connections and the is_online flag *)

\* updateUserStatus(userId, isOnline): the update it will send
StatusWrite(u, isOnline, t) == [user |-> u, is_online |-> isOnline, last_seen |-> t]

\* the channel rooms joinUserChannels puts the socket of user u in
UserChannelRooms(chs, u) ==
    {Room("channel", c) : c \in {d \in DOMAIN chs : u \in Range(chs[d].members)}}

\* io.on('connection'): updateUserStatus and joinUserChannels are called, not awaited
Connect(u) ==
    /\ Len(sessions) < MaxSessions
    /\ sessions' = Append(sessions, [user |-> u, open |-> TRUE, rooms |-> {},
                                     pc |-> "joinUserChannels"])
    /\ writes' = Append(writes, StatusWrite(u, TRUE, now))
    /\ UNCHANGED <<channels, nextChannelId, messages, nextMessageId, now, ticks, reqs,
                   last, notifications, jobs, users, effects>>

\* socket.on('disconnect')
Disconnect(i) ==
    /\ i \in 1..Len(sessions) /\ sessions[i].open
    /\ sessions' = [sessions EXCEPT ![i].open = FALSE, ![i].rooms = {}]
    /\ writes' = Append(writes, StatusWrite(sessions[i].user, FALSE, now))
    /\ UNCHANGED <<channels, nextChannelId, messages, nextMessageId, now, ticks, reqs,
                   last, notifications, jobs, users, effects>>

\* await User.findByIdAndUpdate(userId, {is_online, last_seen}): the updates of calls
\* nobody awaited reach the store in any order
StatusWriteStep(k) ==
    /\ k \in 1..Len(writes)
    /\ users' = [users EXCEPT ![writes[k].user] =
                    [is_online |-> writes[k].is_online, last_seen |-> writes[k].last_seen]]
    /\ writes' = SubSeq(writes, 1, k - 1) \o SubSeq(writes, k + 1, Len(writes))
    /\ UNCHANGED <<channels, nextChannelId, messages, nextMessageId, now, ticks, reqs,
                   last, notifications, jobs, sessions, effects>>

\* joinUserChannels after await Channel.find({members: socket.user.id})
JoinUserChannelsStep(i) ==
    /\ i \in 1..Len(sessions) /\ sessions[i].pc = "joinUserChannels"
    /\ sessions' = [sessions EXCEPT
                       ![i].pc = "done",
                       ![i].rooms = IF sessions[i].open
                                    THEN @ \cup UserChannelRooms(channels, sessions[i].user)
                                    ELSE @]
    /\ UNCHANGED <<channels, nextChannelId, messages, nextMessageId, now, ticks, reqs,
                   last, notifications, jobs, users, writes, effects>>

NextPresence ==
    \/ \E u \in Users : Connect(u)
    \/ \E i \in 1..Len(sessions) : Disconnect(i)
    \/ \E k \in 1..Len(writes) : StatusWriteStep(k)
    \/ \E i \in 1..Len(sessions) : JoinUserChannelsStep(i)

SpecPresence == InitMsg /\ [][NextPresence]_vars

LiveSessions(u) == {i \in 1..Len(sessions) : sessions[i].open /\ sessions[i].user = u}

\* C20: once all pending status writes have completed, a user's is_online flag is
\* true exactly when the user has at least one live session.
C20_OnlineIffLiveSession ==
    writes = <<>> => \A u \in Users : users[u].is_online <=> LiveSessions(u) # {}

-----------------------------------------------------------------------------
(* Channel names and letter case *)

\* createChannel is offered name, and the lowercase form of name is a name the
\* schema accepts, no stored channel has it, and neither the public limit nor the
\* id bound stands in the way
LowercaseWouldSucceed(u, name, type) ==
    /\ ToLowerCase(name) # name
    /\ CreateChannelSyncCheck(ToLowerCase(name)) = ""
    /\ ChannelValidate(CreateChannelData(u, name, type))
    /\ FindByName(channels, ToLowerCase(name)) = Null
    /\ ~(DefaultType(type) = "public" /\ IsChannelLimitReached(channels))

\* C30: createChannel lowercases the requested name before it validates it and checks
\* uniqueness: a request for a name with upper-case letters whose lowercase form is
\* valid and unused succeeds and stores the lowercase name, and no two stored
\* channels have the same name.
C30_LowercaseBeforeValidate ==
    /\ \A u \in Users, name \in NameInputs, type \in TypeInputs :
          LowercaseWouldSucceed(u, name, type) =>
             \E r \in {CreateChannel(channels, messages, nextChannelId, u, name, type)} :
                /\ r.err = "none"
                /\ r.channels[r.id].name = ToLowerCase(name)
    /\ \A c, d \in DOMAIN channels : channels[c].name = channels[d].name => c = d

-----------------------------------------------------------------------------
(* Pinning a message that is already in the requested state *)

\* the step answers a pin of a stored message that is pinned, or an unpin of a stored
\* message that is not pinned
AlreadyInStateStep ==
    /\ last'.op \in {"pinMessage", "unpinMessage"}
    /\ last'.target \in DOMAIN messages
    /\ messages[last'.target].is_pinned = (last'.op = "pinMessage")

\* C27: pinning an already-pinned message and unpinning a message that is not pinned
\* are rejected, leave the message as it was and emit no event.
C27_AlreadyInStateRejected ==
    [][ AlreadyInStateStep =>
           /\ last'.err # "none"
           /\ last'.emitted = <<>>
           /\ messages' = messages ]_vars

-----------------------------------------------------------------------------
(* Content or attachment *)

\* C26: every stored message that is not deleted has non-empty content or an
\* attachment reference (a create or an edit with neither is rejected on both
\* transports).
C26_ContentOrAttachment ==
    \A m \in DOMAIN messages :
        ~messages[m].is_deleted =>
            TruthyString(messages[m].content) \/ messages[m].file_url # NoFileUrl

-----------------------------------------------------------------------------
(* Fan-out of a created message *)

\* how many of the events evs are the event e
CountEvent(evs, e) == Cardinality({i \in 1..Len(evs) : evs[i] = e})

\* the events of evs that went to a thread room
ThreadRoomEvents(evs) == {i \in 1..Len(evs) : evs[i].room.kind = "thread"}

\* C22: every successful message create publishes exactly one message:new to room
\* channel:<channelId>; a reply publishes in addition exactly one thread:new_reply to
\* room thread:<parentId>, and a create with no parent publishes nothing to any
\* thread room.
C22_CreateFanout ==
    [][ (last'.op = "createMessage" /\ last'.err = "none") =>
          \E m \in {messages'[last'.id]} :
             /\ CountEvent(last'.emitted,
                           Event("message:new", Room("channel", m.channel_id))) = 1
             /\ IF m.thread_parent_id # Null
                THEN /\ CountEvent(last'.emitted,
                                   Event("thread:new_reply",
                                         Room("thread", m.thread_parent_id))) = 1
                     /\ Cardinality(ThreadRoomEvents(last'.emitted)) = 1
                ELSE ThreadRoomEvents(last'.emitted) = {} ]_vars

\* a reply has been created over the socket and announced
C22_Witness ==
    /\ last.op = "createMessage" /\ last.err = "none" /\ last.via = "socket"
    /\ messages[last.id].thread_parent_id # Null
    /\ Len(last.emitted) = 2

-----------------------------------------------------------------------------
(* A mention whose email fails *)

\* the step is a turn of the loop of processMentions whose email was rejected
EmailFailedStep ==
    /\ Len(mails') = Len(mails) + 1
    /\ ~mails'[Len(mails')].ok

\* C25: a failure of the email call while a mention is processed removes neither the
\* Notification created for that mention nor the message, leaves the acknowledgment
\* the sender got as it was, and leaves the remaining mentions of the same message
\* to be processed.
C25_EmailFailureIsolated ==
    [][ EmailFailedStep =>
          \E e \in {mails'[Len(mails')]} :
             /\ Len(notifications') = Len(notifications) + 1
             /\ SubSeq(notifications', 1, Len(notifications)) = notifications
             /\ notifications'[Len(notifications')].message_id = e.message_id
             /\ notifications'[Len(notifications')].recipient_id = e.recipient_id
             /\ messages' = messages
             /\ last' = last
             /\ \A j \in 1..Len(jobs) :
                   (jobs[j].message_id = e.message_id /\ Len(jobs[j].mentions) > 1) =>
                      \E k \in 1..Len(jobs') :
                         /\ jobs'[k].message_id = e.message_id
                         /\ jobs'[k].mentions = Tail(jobs[j].mentions) ]_vars

\* an email has failed, its notification is stored, the sender was acknowledged
\* success, and a later mention of the same message has been processed
C25_Witness ==
    \E i \in 1..Len(mails) :
       /\ ~mails[i].ok
       /\ mails[i].message_id \in DOMAIN messages
       /\ last.op = "createMessage" /\ last.err = "none" /\ last.id = mails[i].message_id
       /\ \E a, b \in 1..Len(notifications) :
             /\ a < b
             /\ notifications[a].message_id = mails[i].message_id
             /\ notifications[a].recipient_id = mails[i].recipient_id
             /\ notifications[b].message_id = mails[i].message_id

-----------------------------------------------------------------------------
(* Channel rooms of the live sessions *)

\* socket.on('channel:join'): socket.join, whatever the id and whoever the user
ChannelJoinEvt(i, id) ==
    /\ i \in 1..Len(sessions) /\ sessions[i].open
    /\ sessions' = [sessions EXCEPT ![i].rooms = @ \cup {Room("channel", id)}]
    /\ UNCHANGED <<channels, nextChannelId, messages, nextMessageId, now, ticks, reqs,
                   last, notifications, jobs, users, writes, effects>>

\* socket.on('channel:leave'): socket.leave
ChannelLeaveEvt(i, id) ==
    /\ i \in 1..Len(sessions) /\ sessions[i].open
    /\ sessions' = [sessions EXCEPT ![i].rooms = @ \ {Room("channel", id)}]
    /\ UNCHANGED <<channels, nextChannelId, messages, nextMessageId, now, ticks, reqs,
                   last, notifications, jobs, users, writes, effects>>

\* a user who is no member of the first channel
RoomUsers == {NumUsers}

NextRooms ==
    \/ \E u \in RoomUsers : Connect(u)
    \/ \E i \in 1..Len(sessions) : Disconnect(i)
    \/ \E i \in 1..Len(sessions) : JoinUserChannelsStep(i)
    \/ \E i \in 1..Len(sessions), id \in ChannelIds : ChannelJoinEvt(i, id)
    \/ \E i \in 1..Len(sessions), id \in ChannelIds : ChannelLeaveEvt(i, id)
    \/ \E u \in RoomUsers, id \in ChannelIds : JoinChannelReq(u, id)
    \/ \E u \in RoomUsers, id \in ChannelIds : LeaveChannelReq(u, id)
    \/ \E u \in RoomUsers : CreateChannelReq(u, GeneralName, Undefined)

SpecRooms == InitMsg /\ [][NextRooms]_vars

\* C29: every live session whose connect-time subscription has completed is in room
\* channel:<id> of every channel its user is a member of, also when the user joined
\* or created the channel after the session connected.
C29_MemberSessionsSubscribed ==
    \A i \in 1..Len(sessions) :
       (sessions[i].open /\ sessions[i].pc = "done") =>
          \A c \in DOMAIN channels :
             IsMember(channels, c, sessions[i].user) =>
                Room("channel", c) \in sessions[i].rooms

\* C35: a live session is in room channel:<id> only while its user is a member of
\* that channel: a channel:join event of a non-member subscribes nothing, and a
\* session of a user who has left the channel is no longer in its room.
C35_SubscribedOnlyWhileMember ==
    \A i \in 1..Len(sessions) :
       sessions[i].open =>
          \A room \in sessions[i].rooms :
             room.kind = "channel" => IsMember(channels, room.id, sessions[i].user)

-----------------------------------------------------------------------------
(* Message handlers one await at a time, each request in a slot of its own, with a
   log of what the handlers did: a write committed, an event emitted, an answer given *)

Logged(kind, s, err) == [kind |-> kind, slot |-> s, err |-> err]

\* the frame of a handler: its arguments, the document it holds, the id of the
\* message it wrote, and raced: another handler has saved an array write ($push, or
\* $set of the whole array, both increment __v) of the same message since this
\* handler loaded its document, so that the stored __v is no longer the loaded one
HandlerFrame(op, via, pc, u, target, content, emoji) ==
    [op |-> op, via |-> via, pc |-> pc, user |-> u, target |-> target,
     content |-> content, emoji |-> emoji, doc |-> NoDoc, id |-> Null, raced |-> FALSE]

\* what the HTTP controllers check before their first await, "" when they go on
ArrivalCheck(op, via, content, emoji) ==
    IF via = "http" /\ op = "editMessage" /\ IsBlank(content) THEN "EmptyContent"
    ELSE IF via = "http" /\ op = "editMessage" /\ Len(content) > MaxContentLength
    THEN "TooLong"
    ELSE IF via = "http" /\ op = "addReaction" /\ ~TruthyEmoji(emoji) THEN "EmojiRequired"
    ELSE ""

\* the handlers that load the channel for the membership check
ChecksMembership(op, via) ==
    via = "http" /\ op \in {"addReaction", "removeReaction", "pinMessage", "unpinMessage"}

\* the handlers that await message.populate(...) between their save and their emit
PopulatesBeforeEmit(op, via) ==
    \/ op \in {"createMessage", "editMessage"}
    \/ via = "http" /\ op \in {"addReaction", "pinMessage"}

NoteOf(op) ==
    CASE op = "createMessage" -> "sent"
      [] op = "editMessage" -> "edited"
      [] op = "deleteMessage" -> "deleted"
      [] op = "addReaction" -> "reaction_added"
      [] op = "removeReaction" -> "reaction_removed"
      [] op = "pinMessage" -> "pinned"
      [] OTHER -> "unpinned"

\* (mutant: save() of a replaced array carries no version condition)
VersionConflict_unchecked(f) == FALSE

\* this.reactions = ...; this.save(): the $set of a whole array is sent with the
\* condition {__v: the loaded __v} and fails with VersionError when it matches nothing
VersionConflict(f) == f.raced

\* the write of the handler of frame f, on the store as it is when the write arrives
HandlerWrite(f, chs, msgs, nid, t) ==
    CASE f.op = "createMessage" ->
           SockSendMessage(chs, msgs, nid, t, f.user, f.content, f.target, Null)
      [] f.op = "editMessage" ->
           IF ~MessageValidate([f.doc EXCEPT !.content = f.content])
           THEN Result("ValidationError", "", Null, chs, msgs)
           ELSE Result("none", "edited", f.target, chs,
                       [msgs EXCEPT ![f.target].content = f.content,
                                    ![f.target].is_edited = TRUE])
      [] f.op = "deleteMessage" ->
           Result("none", "deleted", f.target, chs,
                  [msgs EXCEPT ![f.target].is_deleted = TRUE,
                               ![f.target].content = Tombstone])
      [] f.op = "addReaction" ->
           IF HasReaction(f.doc, f.emoji, f.user)
           THEN Result("none", "reaction_added", f.target, chs, msgs)
           ELSE IF ~ReactionValidate(f.emoji)
           THEN Result("ValidationError", "", Null, chs, msgs)
           ELSE Result("none", "reaction_added", f.target, chs,
                       [msgs EXCEPT ![f.target].reactions =
                           Append(@, [emoji |-> f.emoji, user_id |-> f.user])])
      [] f.op = "removeReaction" ->
           IF FilterReactions(f.doc.reactions, f.emoji, f.user) = f.doc.reactions
           THEN Result("none", "reaction_removed", f.target, chs, msgs)
           ELSE IF VersionConflict(f)
           THEN Result("VersionError", "", Null, chs, msgs)
           ELSE Result("none", "reaction_removed", f.target, chs,
                       [msgs EXCEPT ![f.target].reactions =
                           FilterReactions(f.doc.reactions, f.emoji, f.user)])
      [] OTHER ->
           Result("none", NoteOf(f.op), f.target, chs,
                  [msgs EXCEPT ![f.target].is_pinned = (f.op = "pinMessage")])

\* the write r of frame f changed the reactions array of its message
IsArrayWrite(f, r) ==
    /\ f.op \in {"addReaction", "removeReaction"}
    /\ r.err = "none"
    /\ r.messages # messages

\* (mutant: the catch block does not answer)
CaughtAnswer_silent(s, err) == <<>>

\* catch (error) { if (callback) callback({success: false, error: error.message}) },
\* and next(error) over HTTP
CaughtAnswer(s, err) == <<Logged("answer", s, err)>>

\* the handler in slot s ends with the answer r: its frame stays where it ended
HandlerEnds(s, r, entries) ==
    /\ reqs' = [reqs EXCEPT ![s].pc = "done"]
    /\ log' = log \o entries
    /\ last' = Response(reqs[s].op, reqs[s].via, reqs[s].user, reqs[s].target, r, Null,
                        reqs[s].raced)
    /\ jobs' = jobs \o MentionJobs(reqs[s].via, r)
    /\ UNCHANGED <<channels, nextChannelId, now, ticks, notifications, users, writes,
                   sessions, mails, uploads>>

\* the handler in slot s ends in its catch block
HandlerThrows(s, err) ==
    HandlerEnds(s, MsgRejected(err), CaughtAnswer(s, err))

\* return callback({success: false, error}) / return next(new AppError(...))
HandlerRejects(s, err) ==
    HandlerEnds(s, MsgRejected(err), <<Logged("answer", s, err)>>)

\* a request or an event arrives in the free slot s
HandlerArrives(s, op, via, u, target, content, emoji) ==
    /\ reqs[s].pc = "idle"
    /\ op = "createMessage" => via = "socket"
    /\ reqs' = [reqs EXCEPT ![s] =
                  HandlerFrame(op, via,
                               IF ArrivalCheck(op, via, content, emoji) # "" THEN "done"
                               ELSE IF op = "createMessage" THEN "save" ELSE "find",
                               u, target, content, emoji)]
    /\ IF ArrivalCheck(op, via, content, emoji) # ""
       THEN /\ log' = Append(log, Logged("answer", s, ArrivalCheck(op, via, content, emoji)))
            /\ last' = Response(op, via, u, target,
                                MsgRejected(ArrivalCheck(op, via, content, emoji)),
                                Null, FALSE)
       ELSE UNCHANGED <<log, last>>
    /\ UNCHANGED <<channels, nextChannelId, messages, nextMessageId, now, ticks,
                   notifications, jobs, users, writes, sessions, mails, uploads>>

\* await Message.findById(id) settles (ok: it resolves), and the checks that follow
HandlerFindStep(s, ok) ==
    /\ reqs[s].pc = "find"
    /\ IF ~ok THEN HandlerThrows(s, "StorageError")
       ELSE IF LoadedCheck(reqs[s], now) # ""
       THEN HandlerRejects(s, LoadedCheck(reqs[s], now))
       ELSE /\ reqs' = [reqs EXCEPT
                           ![s].pc = IF ChecksMembership(reqs[s].op, reqs[s].via)
                                     THEN "findChannel" ELSE "save",
                           ![s].doc = messages[reqs[s].target]]
            /\ UNCHANGED <<channels, nextChannelId, now, ticks, last, outside>>
    /\ UNCHANGED <<messages, nextMessageId>>

\* await Channel.findById(message.channel_id) settles, and the membership check
HandlerChannelStep(s, ok) ==
    /\ reqs[s].pc = "findChannel"
    /\ IF ~ok THEN HandlerThrows(s, "StorageError")
       ELSE IF reqs[s].doc.channel_id \notin DOMAIN channels
       THEN HandlerRejects(s, "ChannelNotFound")
       ELSE IF ~IsMember(channels, reqs[s].doc.channel_id, reqs[s].user)
       THEN HandlerRejects(s, "NotMember")
       ELSE /\ reqs' = [reqs EXCEPT ![s].pc = "save"]
            /\ UNCHANGED <<channels, nextChannelId, now, ticks, last, outside>>
    /\ UNCHANGED <<messages, nextMessageId>>

\* the frames after the write r of slot s: an array write leaves the documents the
\* other handlers hold of the same message with an old __v
AfterWrite(s, r, pc) ==
    [t \in Slots |->
        IF t = s THEN [reqs[s] EXCEPT !.pc = pc, !.id = r.id]
        ELSE IF /\ IsArrayWrite(reqs[s], r)
                /\ reqs[t].pc \in {"findChannel", "save"}
                /\ reqs[t].target = reqs[s].target
        THEN [reqs[t] EXCEPT !.raced = TRUE]
        ELSE reqs[t]]

\* await Message.create(...) / message.save() settles; the handlers with no populate
\* emit and answer as soon as they go on
HandlerSaveStep(s, ok) ==
    /\ reqs[s].pc = "save"
    /\ \E r \in {HandlerWrite(reqs[s], channels, messages, nextMessageId, now)} :
          IF ~ok \/ r.err # "none"
          THEN /\ HandlerThrows(s, IF ~ok THEN "StorageError" ELSE r.err)
               /\ UNCHANGED <<messages, nextMessageId>>
          ELSE /\ messages' = r.messages
               /\ nextMessageId' = IF r.note = "sent" THEN nextMessageId + 1
                                   ELSE nextMessageId
               /\ IF PopulatesBeforeEmit(reqs[s].op, reqs[s].via)
                  THEN /\ reqs' = AfterWrite(s, r, "populate")
                       /\ log' = Append(log, Logged("commit", s, ""))
                       /\ UNCHANGED <<channels, nextChannelId, now, ticks, last,
                                      notifications, jobs, users, writes, sessions,
                                      mails, uploads>>
                  ELSE /\ \E q \in {Result("none", r.note, r.id, channels, r.messages)} :
                            /\ last' = Response(reqs[s].op, reqs[s].via, reqs[s].user,
                                                reqs[s].target, q, Null, reqs[s].raced)
                            /\ log' = log \o <<Logged("commit", s, ""),
                                               Logged("emit", s, ""),
                                               Logged("answer", s, "none")>>
                       /\ reqs' = AfterWrite(s, r, "done")
                       /\ UNCHANGED <<channels, nextChannelId, now, ticks,
                                      notifications, jobs, users, writes, sessions,
                                      mails, uploads>>

\* await message.populate(...) settles: the handler emits and answers
HandlerPopulateStep(s, ok) ==
    /\ reqs[s].pc = "populate"
    /\ IF ~ok THEN HandlerThrows(s, "StorageError")
       ELSE \E r \in {Result("none", NoteOf(reqs[s].op), reqs[s].id, channels, messages)} :
               HandlerEnds(s, r,
                           [i \in 1..Len(Emitted(reqs[s].op, r)) |-> Logged("emit", s, "")]
                           \o <<Logged("answer", s, "none")>>)
    /\ UNCHANGED <<messages, nextMessageId>>

\* how often the handler in slot s has answered its caller
AnswerCount(s) ==
    Cardinality({i \in 1..Len(log) : log[i].kind = "answer" /\ log[i].slot = s})

\* the answer of the handler in slot s, "" while it has given none
AnswerOf(s) ==
    IF AnswerCount(s) = 0 THEN ""
    ELSE log[CHOOSE i \in 1..Len(log) : log[i].kind = "answer" /\ log[i].slot = s].err

-----------------------------------------------------------------------------
(* Socket events and their acknowledgment, every await free to fail *)

NextAck ==
    \/ \E s \in Slots, op \in MessageOps, u \in RaceUsers :
          HandlerArrives(s, op, "socket", u, 1, Hi, ThumbsUp)
    \/ \E s \in Slots, ok \in BOOLEAN : HandlerFindStep(s, ok)
    \/ \E s \in Slots, ok \in BOOLEAN : HandlerSaveStep(s, ok)
    \/ \E s \in Slots, ok \in BOOLEAN : HandlerPopulateStep(s, ok)

SpecAck == InitMsgRace /\ [][NextAck]_vars

\* the promise the handler in slot s awaits settles
HandlerSettles(s) ==
    \E ok \in BOOLEAN :
       HandlerFindStep(s, ok) \/ HandlerSaveStep(s, ok) \/ HandlerPopulateStep(s, ok)

\* every storage call settles in the end
SpecAckLive == SpecAck /\ \A s \in Slots : WF_vars(HandlerSettles(s))

\* C24: every mutating socket event sent with an acknowledgment callback has the
\* callback invoked exactly once in the end, with success or with an error, whatever
\* fails inside the handler.
C24_AckExactlyOnce ==
    /\ [](\A s \in Slots : AnswerCount(s) <= 1)
    /\ \A s \in Slots : (reqs[s].pc # "idle") ~> (AnswerCount(s) = 1)

\* a handler whose populate failed after its write has answered, once, with the error
C24_Witness ==
    \E s \in Slots :
       /\ reqs[s].pc = "done"
       /\ AnswerCount(s) = 1 /\ AnswerOf(s) = "StorageError"
       /\ \E i \in 1..Len(log) : log[i].kind = "commit" /\ log[i].slot = s

-----------------------------------------------------------------------------
(* Two mutations of one channel and the order of their events *)

NextFanout ==
    \/ \E s \in Slots, u \in Members :
          HandlerArrives(s, "createMessage", "socket", u, 1, Hi, Undefined)
    \/ \E s \in Slots : HandlerArrives(s, "editMessage", "http", 1, 1, Hi, Undefined)
    \/ \E s \in Slots : HandlerFindStep(s, TRUE)
    \/ \E s \in Slots : HandlerSaveStep(s, TRUE)
    \/ \E s \in Slots : HandlerPopulateStep(s, TRUE)

SpecFanout == InitMsgRace /\ [][NextFanout]_vars

\* the place in the log of the write of the handler in slot s
CommitIndex(s) == CHOOSE i \in 1..Len(log) : log[i].kind = "commit" /\ log[i].slot = s

\* the channel of the message the handler in slot s wrote
WrittenChannel(s) == messages[reqs[s].id].channel_id

\* C21: the events two mutations of messages of the same channel publish to the
\* channel's room are emitted in the order in which the mutations were committed,
\* also when the handlers are suspended between their save and their emit.
C21_EmitInCommitOrder ==
    \A i, j \in 1..Len(log) :
       (/\ i < j
        /\ log[i].kind = "emit" /\ log[j].kind = "emit"
        /\ log[i].slot # log[j].slot
        /\ WrittenChannel(log[i].slot) = WrittenChannel(log[j].slot))
          => CommitIndex(log[i].slot) < CommitIndex(log[j].slot)

-----------------------------------------------------------------------------
(* Two reaction updates of one message *)

Tada == "tada"

\* the message the two updates start from: the second user has reacted
ReactRaceMessages ==
    [RaceMessages EXCEPT ![1].reactions = <<[emoji |-> ThumbsUp, user_id |-> 2]>>]

InitReactRace ==
    /\ channels = MsgChannels
    /\ nextChannelId = 2
    /\ messages = ReactRaceMessages
    /\ nextMessageId = 2
    /\ now = 0
    /\ ticks = 0
    /\ reqs = [s \in Slots |-> Idle]
    /\ last = NoResponse
    /\ InitOutside

\* the first user adds a reaction; the second removes theirs or adds another
NextReactRace ==
    \/ \E via \in Transports :
          HandlerArrives(1, "addReaction", via, 1, 1, NoString, ThumbsUp)
    \/ \E via \in Transports :
          HandlerArrives(2, "removeReaction", via, 2, 1, NoString, ThumbsUp)
    \/ \E via \in Transports :
          HandlerArrives(2, "addReaction", via, 2, 1, NoString, Tada)
    \/ \E s \in Slots : HandlerFindStep(s, TRUE)
    \/ \E s \in Slots : HandlerChannelStep(s, TRUE)
    \/ \E s \in Slots : HandlerSaveStep(s, TRUE)
    \/ \E s \in Slots : HandlerPopulateStep(s, TRUE)

SpecReactRace == InitReactRace /\ [][NextReactRace]_vars

\* the message after the reaction update of frame f alone
ApplyReaction(f, msg) ==
    IF f.op = "addReaction" THEN WithReaction(msg, f.emoji, f.user)
    ELSE WithoutReaction(msg, f.emoji, f.user)

\* the reaction sets the two updates give when one runs after the other
SequentialReactions ==
    { Range(ApplyReaction(reqs[2], ApplyReaction(reqs[1], ReactRaceMessages[1])).reactions),
      Range(ApplyReaction(reqs[1], ApplyReaction(reqs[2], ReactRaceMessages[1])).reactions) }

\* C28: when an addReaction of one user and a removeReaction or addReaction of another
\* user on the same message both report success, however their steps interleave, the
\* reactions of the message are those of the two updates applied one after the other.
C28_NoLostReactionUpdate ==
    (AnswerOf(1) = "none" /\ AnswerOf(2) = "none") =>
        Range(messages[1].reactions) \in SequentialReactions

\* both updates succeeded, and the removal was saved while the add held its document
C28_Witness ==
    /\ AnswerOf(1) = "none" /\ AnswerOf(2) = "none"
    /\ reqs[2].op = "removeReaction"
    /\ reqs[1].raced

-----------------------------------------------------------------------------
(* Requests whose last storage call fails *)

\* createMessage when Message.create resolves (db) or rejects
HttpCreateMessageStoring(chs, msgs, nid, t, u, content, channel, parent, file, upload, db) ==
    IF HttpCreateMessage(chs, msgs, nid, t, u, content, channel, parent, file, upload).note
          = "sent" /\ ~db
    THEN Result("StorageError", "", Null, chs, msgs)
    ELSE HttpCreateMessage(chs, msgs, nid, t, u, content, channel, parent, file, upload)

\* the file createMessage leaves in the attachment store: uploadToCloudinary runs once
\* every check has passed, before Message.create
UploadedBy(chs, msgs, nid, t, u, content, channel, parent, file, upload) ==
    IF /\ file /\ upload
       /\ HttpCreateMessage(chs, msgs, nid, t, u, content, channel, parent, file, TRUE).note
             = "sent"
    THEN <<"url">>
    ELSE <<>>

\* POST /api/messages
HttpCreateMessageDbReq(cap, u, content, channel, parent, file, upload, db) ==
    \E r \in {HttpCreateMessageStoring(channels, messages, nextMessageId, now, u, content,
                                       channel, parent, file, upload, db)} :
       /\ r.note = "sent" => nextMessageId <= cap
       /\ Len(uploads) < MaxUploads
       /\ messages' = r.messages
       /\ nextMessageId' = IF r.note = "sent" THEN nextMessageId + 1 ELSE nextMessageId
       /\ uploads' = uploads \o UploadedBy(channels, messages, nextMessageId, now, u,
                                           content, channel, parent, file, upload)
       /\ last' = Response("createMessage", "http", u, channel, r, Null, FALSE)
       /\ UNCHANGED <<channels, nextChannelId, now, ticks, reqs, notifications, jobs,
                      users, writes, sessions, mails, log>>

\* deleteChannel when Message.deleteMany, its last call, resolves (db) or rejects:
\* Channel.findByIdAndDelete has run before it
DeleteChannelStoring(chs, msgs, u, id, db) ==
    IF DeleteChannel(chs, msgs, u, id).err = "none" /\ ~db
    THEN Result("StorageError", "", Null, DeleteChannel(chs, msgs, u, id).channels, msgs)
    ELSE DeleteChannel(chs, msgs, u, id)

\* DELETE /api/channels/:id
DeleteChannelDbReq(u, id, db) ==
    \E r \in {DeleteChannelStoring(channels, messages, u, id, db)} :
       /\ Commit(r)
       /\ last' = Response("deleteChannel", "http", u, id, r, Null, FALSE)
       /\ UNCHANGED <<nextMessageId, now, ticks, reqs, outside>>

NextFailure ==
    \/ \E u \in Users, name \in NameInputs : CreateChannelReq(u, name, "dm")
    \/ \E u \in Users, content \in MsgContents, channel \in ChannelIds,
          file \in BOOLEAN, upload \in BOOLEAN, db \in BOOLEAN :
          HttpCreateMessageDbReq(MsgCap, u, content, channel, Null, file, upload, db)
    \/ \E u \in Users, id \in ChannelIds, db \in BOOLEAN : DeleteChannelDbReq(u, id, db)

SpecFailure == InitMsg /\ [][NextFailure]_vars

ChannelOps ==
    {"createChannel", "joinChannel", "leaveChannel", "deleteChannel", "createDmChannel"}

\* C23: a message or channel operation that answers with an error leaves the channel
\* store, the message store and the attachment store as they were and publishes no
\* event, also when a storage call of the request fails after an earlier one has run.
C23_ErrorsHaveNoSideEffects ==
    [][ (last'.op \in MessageOps \cup ChannelOps /\ last'.err # "none") =>
           /\ channels' = channels
           /\ messages' = messages
           /\ uploads' = uploads
           /\ last'.emitted = <<>> ]_vars

-----------------------------------------------------------------------------
(* Who may edit or delete a message *)

\* a member creates the message; every user sends edits and deletes over both transports
NextAuthor ==
    \/ \E u \in Members : HttpCreateMessageReq(MsgCap, u, Hi, 1, Null, FALSE, TRUE)
    \/ \E u \in Users, id \in MsgIds, content \in MsgContents \cup {LongContent} :
          HttpEditMessageReq(u, id, content)
    \/ \E u \in Users, id \in MsgIds : HttpDeleteMessageReq(u, id)
    \/ \E u \in Users, id \in MsgIds, content \in MsgContents :
          SockEditMessageEvt(u, id, content)
    \/ \E u \in Users, id \in MsgIds : SockDeleteMessageEvt(u, id)

SpecAuthor == InitMsg /\ [][NextAuthor]_vars

\* the step answers an edit or a delete of a stored message, sent by a user who is not
\* its author
NonAuthorStep ==
    /\ last'.op \in {"editMessage", "deleteMessage"}
    /\ last'.target \in DOMAIN messages
    /\ messages[last'.target].author_id # last'.user

C32_SocketAuthorAccepted ==
    [][ \A u \in Users, id \in DOMAIN messages :
           ( /\ messages[id].author_id = u
             /\ ~messages[id].is_deleted
             /\ CanBeEdited(messages[id], now)
             /\ \/ SockEditMessageEvt(u, id, Hi)
                \/ SockDeleteMessageEvt(u, id) )
           => /\ last'.err = "none"
              /\ last'.op = "editMessage" =>
                    messages'[id].content = Hi /\ messages'[id].is_edited
              /\ last'.op = "deleteMessage" => messages'[id].is_deleted
              /\ Len(last'.emitted) = 1 ]_vars

-----------------------------------------------------------------------------
(* Notifications and their read state (notificationController.js) *)

\* (mutant: a list of ids selects those notifications whoever their recipient is)
MarkFilter_idsOnly(ns, n, u, ids) == IF ids # {} THEN n \in ids ELSE ns[n].recipient_id = u

\* statics.markAsRead: the filter {recipient_id, _id: {$in: ids}} of its updateMany,
\* the ids being left out of it when the list is empty
MarkFilter(ns, n, u, ids) == ns[n].recipient_id = u /\ (ids # {} => n \in ids)

\* updateMany(filter, {is_read: true})
MarkAsRead(ns, u, ids) ==
    [n \in DOMAIN ns |-> IF MarkFilter(ns, n, u, ids) THEN [ns[n] EXCEPT !.is_read = TRUE]
                         ELSE ns[n]]

\* exports.markOneAsRead: its answer
MarkOneCheck(ns, u, id) ==
    IF id \notin DOMAIN ns THEN "NotFound"
    ELSE IF ~StrictEquals(StringOf(ns[id].recipient_id), StringOf(u)) THEN "NotAuthorized"
    ELSE "none"

\* PATCH /api/notifications/read
MarkAsReadReq(u, ids) ==
    /\ notifications' = MarkAsRead(notifications, u, ids)
    /\ last' = Response("markAsRead", "http", u, Null,
                        Result("none", "marked", Null, channels, messages), Null, FALSE)
    /\ UNCHANGED <<channels, nextChannelId, messages, nextMessageId, now, ticks, reqs,
                   jobs, users, writes, sessions, effects>>

\* PATCH /api/notifications/:id/read
MarkOneAsReadReq(u, id) ==
    /\ notifications' =
          IF MarkOneCheck(notifications, u, id) = "none"
          THEN [notifications EXCEPT ![id].is_read = TRUE]
          ELSE notifications
    /\ last' = Response("markOneAsRead", "http", u, id,
                        Result(MarkOneCheck(notifications, u, id), "", Null,
                               channels, messages), Null, FALSE)
    /\ UNCHANGED <<channels, nextChannelId, messages, nextMessageId, now, ticks, reqs,
                   jobs, users, writes, sessions, effects>>

\* req.body.ids: none, one id, every id, an id no notification has
IdLists ==
    {{}, DOMAIN notifications, {UnknownId}} \cup {{n} : n \in DOMAIN notifications}

NotifyContents == {Mention(2), Mention(3)}

NextNotify ==
    \/ \E content \in NotifyContents : SockSendMessageEvt(MentionCap, 1, content, 1, Null)
    \/ ProcessMentions
    \/ \E u \in Users, ids \in IdLists : MarkAsReadReq(u, ids)
    \/ \E u \in Users, id \in DOMAIN notifications \cup {UnknownId} : MarkOneAsReadReq(u, id)

SpecNotify == InitMsg /\ [][NextNotify]_vars

\* the step answers a mark-as-read request of user u
MarkStepOf(u) ==
    \/ \E ids \in IdLists : MarkAsReadReq(u, ids)
    \/ \E id \in DOMAIN notifications : MarkOneAsReadReq(u, id)

\* C33: is_read of a notification changes only from false to true and only in a step
\* that answers a mark-as-read request of its recipient; a single mark by another
\* user is rejected; a bulk mark leaves the listed notifications of other users
\* unchanged.
C33_ReadOnlyByRecipient ==
    [][ /\ Len(notifications') >= Len(notifications)
        /\ \A n \in DOMAIN notifications :
              /\ notifications'[n].is_read # notifications[n].is_read =>
                    /\ notifications'[n].is_read
                    /\ MarkStepOf(notifications[n].recipient_id)
              /\ notifications'[n].recipient_id = notifications[n].recipient_id
        /\ \A n \in DOMAIN notifications, u \in Users :
              (MarkOneAsReadReq(u, n) /\ u # notifications[n].recipient_id)
              => last'.err = "NotAuthorized" /\ notifications' = notifications ]_vars

\* a notification of one user is read, one of another user is not, and the first
\* user's single mark of that one was just rejected
C33_Witness ==
    /\ last.op = "markOneAsRead" /\ last.err = "NotAuthorized"
    /\ \E n, k \in DOMAIN notifications :
          /\ notifications[n].is_read
          /\ ~notifications[k].is_read
          /\ notifications[k].recipient_id # notifications[n].recipient_id
          /\ last.target = k
          /\ last.user = notifications[n].recipient_id

-----------------------------------------------------------------------------
(* Attachments: creates with and without a file, in a public and in a dm channel *)

AttachCap == MaxMessageIds + 1

\* the store starts with the public channel; a channel of type dm is created by
\* POST /api/channels with type 'dm' (createDmChannel stores none)
NextAttach ==
    \/ \E u \in Members : CreateChannelReq(u, GeneralName, "dm")
    \/ \E u \in Members, content \in MsgContents, channel \in ChannelIds,
          file \in BOOLEAN, upload \in BOOLEAN :
          HttpCreateMessageReq(AttachCap, u, content, channel, Null, file, upload)
    \/ \E u \in Members, channel \in ChannelIds :
          SockSendMessageEvt(AttachCap, u, Hi, channel, Null)
    \/ \E id \in ChannelIds : DeleteChannelReq(Admin, id)

SpecAttach == InitMsg /\ [][NextAttach]_vars

\* every message with a file_url is in a stored channel of type dm
AttachmentsInDm ==
    \A m \in DOMAIN messages :
        messages[m].file_url # NoFileUrl =>
            /\ messages[m].channel_id \in DOMAIN channels
            /\ channels[messages[m].channel_id].type = "dm"

\* C34: in every reachable state every message that carries an attachment reference
\* belongs to a channel of type dm, and a create with a file on a channel of another
\* type is rejected with nothing stored and nothing uploaded.
C34_AttachmentsOnlyInDm ==
    /\ []AttachmentsInDm
    /\ [][ \A u \in Members, content \in MsgContents, channel \in DOMAIN channels,
              upload \in BOOLEAN :
              ( /\ channels[channel].type # "dm"
                /\ HttpCreateMessageReq(AttachCap, u, content, channel, Null, TRUE, upload) )
              => /\ last'.err # "none"
                 /\ messages' = messages
                 /\ uploads' = uploads ]_vars

\* a message with a file is stored in the dm channel, and a create with a file of a
\* member of the public channel was just rejected
C34_Witness ==
    /\ \E m \in DOMAIN messages : messages[m].file_url # NoFileUrl
    /\ uploads # <<>>
    /\ last.op = "createMessage" /\ last.err = "AttachmentNotAllowed"
    /\ last.target \in DOMAIN channels
    /\ channels[last.target].type = "public"

-----------------------------------------------------------------------------
(* Joining and leaving a channel, one await at a time (joinChannel, leaveChannel) *)

\* the frame of a joinChannel or leaveChannel handler: doc is the channel document it
\* loaded, with the changes it has made to it so far; seen is created_by as loaded
MemberFrame(op, pc, u, target, doc, seen) ==
    [op |-> op, pc |-> pc, user |-> u, target |-> target, doc |-> doc, seen |-> seen,
     raced |-> FALSE]

\* const channel, before findById resolves
NoChannel == [name |-> <<>>, type |-> "", created_by |-> Null, members |-> <<>>]

\* the request arrives: await Channel.findById(id) (ticks counts the arrivals)
MemberArrives(s, op, u, id) ==
    /\ reqs[s].pc = "idle"
    /\ ticks < MaxArrivals
    /\ ticks' = ticks + 1
    /\ reqs' = [reqs EXCEPT ![s] = MemberFrame(op, "find", u, id, NoChannel, Null)]
    /\ UNCHANGED <<channels, nextChannelId, messages, nextMessageId, now, last, outside>>

\* the checks on the loaded document
MemberCheck(f, chs) ==
    IF f.target \notin DOMAIN chs THEN "NotFound"
    ELSE IF chs[f.target].type # "public" THEN "NotPublic"
    ELSE IF f.op = "joinChannel" /\ f.user \in Range(chs[f.target].members)
    THEN "AlreadyMember"
    ELSE IF f.op = "leaveChannel" /\ f.user \notin Range(chs[f.target].members)
    THEN "NotMember"
    ELSE ""

\* the handler's answer: the frame is gone
MemberAnswer(s, r) ==
    /\ reqs' = [reqs EXCEPT ![s] = Idle]
    /\ last' = Response(reqs[s].op, "http", reqs[s].user, reqs[s].target, r,
                        reqs[s].seen, reqs[s].raced)

\* Channel.findById resolved: the checks, then channel.members.push(req.user._id) for a
\* join; a leave of the creator with other members goes on to await User.findOne
MemberFindStep(s) ==
    /\ reqs[s].pc = "find"
    /\ IF MemberCheck(reqs[s], channels) # ""
       THEN MemberAnswer(s, Rejected(MemberCheck(reqs[s], channels)))
       ELSE /\ reqs' = [reqs EXCEPT
                  ![s].doc = IF reqs[s].op = "joinChannel"
                             THEN [channels[reqs[s].target] EXCEPT
                                      !.members = Append(@, reqs[s].user)]
                             ELSE channels[reqs[s].target],
                  ![s].seen = channels[reqs[s].target].created_by,
                  ![s].pc = IF /\ reqs[s].op = "leaveChannel"
                               /\ channels[reqs[s].target].created_by = reqs[s].user
                               /\ Len(channels[reqs[s].target].members) > 1
                            THEN "findOldest" ELSE "save"]
            /\ UNCHANGED last
    /\ UNCHANGED <<channels, nextChannelId, messages, nextMessageId, now, ticks, outside>>

\* User.findOne(...).sort({created_at: 1}) resolved: channel.created_by = oldestMember._id
FindOldestStep(s) ==
    /\ reqs[s].pc = "findOldest"
    /\ reqs' = [reqs EXCEPT ![s].doc.created_by = CreatorAfterLeave(reqs[s].doc, reqs[s].user),
                            ![s].pc = "save"]
    /\ UNCHANGED <<channels, nextChannelId, messages, nextMessageId, now, ticks, last,
                   outside>>

\* the frames after handler s has answered and its save has changed the version of the
\* stored document: every other handler holding a copy of it has an old version
AnsweredAndBumped(s) ==
    [t \in Slots |->
        IF t = s THEN Idle
        ELSE IF reqs[t].pc \in {"findOldest", "save"} /\ reqs[t].target = reqs[s].target
        THEN [reqs[t] EXCEPT !.raced = TRUE]
        ELSE reqs[t]]

\* a join's channel.save(): the update is {$push: {members}, $inc: {__v: 1}} on {_id},
\* with no condition on the version
JoinSaveStep(s) ==
    /\ reqs[s].pc = "save" /\ reqs[s].op = "joinChannel"
    /\ IF reqs[s].target \notin DOMAIN channels
       THEN /\ MemberAnswer(s, Rejected("DocumentNotFound"))
            /\ UNCHANGED channels
       ELSE /\ channels' = [channels EXCEPT ![reqs[s].target].members =
                               Append(@, reqs[s].user)]
            /\ reqs' = AnsweredAndBumped(s)
            /\ last' = Response("joinChannel", "http", reqs[s].user, reqs[s].target,
                                Result("none", "joined", reqs[s].target, channels',
                                       messages), reqs[s].seen, reqs[s].raced)
    /\ UNCHANGED <<nextChannelId, messages, nextMessageId, now, ticks, outside>>

\* the members a leave writes: channel.members.filter(...) of the document it loaded
LeftMembers(f) == Without(f.doc.members, f.user)

\* a leave's last await: Channel.findByIdAndDelete(id) when its filtered list is empty,
\* else channel.save(), whose update {$set: {members, created_by}, $inc: {__v: 1}}
\* carries the condition {__v: <as loaded>} because it sets a whole array
LeaveSaveStep(s) ==
    /\ reqs[s].pc = "save" /\ reqs[s].op = "leaveChannel"
    /\ IF LeaveDeletesChannel(LeftMembers(reqs[s]))
       THEN /\ channels' = [c \in DOMAIN channels \ {reqs[s].target} |-> channels[c]]
            /\ MemberAnswer(s, Result("none", "ChannelDeleted", reqs[s].target,
                                      channels', messages))
       ELSE IF reqs[s].target \notin DOMAIN channels
       THEN /\ MemberAnswer(s, Rejected("DocumentNotFound"))
            /\ UNCHANGED channels
       ELSE IF VersionConflict(reqs[s])
       THEN /\ MemberAnswer(s, Rejected("VersionError"))
            /\ UNCHANGED channels
       ELSE /\ channels' = [channels EXCEPT
                  ![reqs[s].target].members = LeftMembers(reqs[s]),
                  ![reqs[s].target].created_by =
                      IF reqs[s].doc.created_by # reqs[s].seen
                      THEN reqs[s].doc.created_by ELSE @]
            /\ reqs' = AnsweredAndBumped(s)
            /\ last' = Response("leaveChannel", "http", reqs[s].user, reqs[s].target,
                                Result("none", "Left", reqs[s].target, channels',
                                       messages), reqs[s].seen, reqs[s].raced)
    /\ UNCHANGED <<nextChannelId, messages, nextMessageId, now, ticks, outside>>

NextMemberRace ==
    \/ \E s \in Slots, u \in Users : MemberArrives(s, "joinChannel", u, 1)
    \/ \E s \in Slots, u \in Users : MemberArrives(s, "leaveChannel", u, 1)
    \/ \E s \in Slots : MemberFindStep(s)
    \/ \E s \in Slots : FindOldestStep(s)
    \/ \E s \in Slots : JoinSaveStep(s)
    \/ \E s \in Slots : LeaveSaveStep(s)

SpecMemberRace == InitMsg /\ [][NextMemberRace]_vars

\* the number of times u is in the list
Occurrences(members, u) == Cardinality({i \in 1..Len(members) : members[i] = u})

\* C36: in every reachable state a channel's member list contains each user at most
\* once, also when one user's two join requests for a channel both pass the
\* already-member check before either saves.
C36_MembersDistinct ==
    \A c \in DOMAIN channels, u \in Users : Occurrences(channels[c].members, u) <= 1

\* the step is the last await of a leave of user u that answers success
LeaveSucceeds(u) ==
    \E s \in Slots : reqs[s].user = u /\ LeaveSaveStep(s) /\ last'.err = "none"

\* the step is the save of a join of user u
JoinSaves(u) == \E s \in Slots : reqs[s].user = u /\ JoinSaveStep(s)

\* C37: a leave of user U that answers success leaves U out of the member list, and U
\* is put into a member list only by the save of a join of U: no save of another
\* member's concurrent join or leave brings U back.
C37_LeaveIsNotUndone ==
    [][ \A u \in Users :
           /\ LeaveSucceeds(u) => ~IsMember(channels', last'.target, u)
           /\ \A c \in DOMAIN channels :
                 (~IsMember(channels, c, u) /\ IsMember(channels', c, u)) => JoinSaves(u) ]_vars

\* a leave has just answered success while the handler of another user, which loaded
\* the channel before that, is about to save
C37_Witness ==
    /\ last.op = "leaveChannel" /\ last.err = "none" /\ last.note = "Left"
    /\ ~IsMember(channels, 1, last.user)
    /\ \E t \in Slots :
          /\ reqs[t].pc = "save" /\ reqs[t].raced
          /\ reqs[t].user # last.user
          /\ last.user \in Range(reqs[t].doc.members)

\* C38: in every reachable state the creator of every stored public channel is one of
\* its members, also while the leave of the creator and the leave of the member chosen
\* as the new creator interleave.
C38_CreatorIsMember ==
    \A c \in DOMAIN channels :
        channels[c].type = "public" => channels[c].created_by \in Range(channels[c].members)

\* the creator's leave has handed the channel to a member whose own leave, begun
\* before that, is about to save
C38_Witness ==
    /\ last.op = "leaveChannel" /\ last.err = "none" /\ last.seen = last.user
    /\ 1 \in DOMAIN channels
    /\ \E t \in Slots :
          /\ reqs[t].op = "leaveChannel" /\ reqs[t].pc = "save" /\ reqs[t].raced
          /\ reqs[t].user = channels[1].created_by

-----------------------------------------------------------------------------
(* Messages of channels that are gone *)

NextOrphan ==
    \/ \E u \in Members : HttpCreateMessageReq(AttachCap, u, Hi, 1, Null, FALSE, TRUE)
    \/ \E u \in Members, channel \in MentionChannels :
          SockSendMessageEvt(AttachCap, u, Hi, channel, Null)
    \/ \E u \in Members : LeaveChannelReq(u, 1)
    \/ \E u \in Members : JoinChannelReq(u, 1)
    \/ DeleteChannelReq(Admin, 1)

SpecOrphan == InitMsg /\ [][NextOrphan]_vars

\* C39: in every reachable state every stored message refers to a channel that
\* exists: when a channel is deleted, by an admin or because its last member left, no
\* message with its id remains.
C39_MessagesHaveChannel ==
    \A m \in DOMAIN messages : messages[m].channel_id \in DOMAIN channels

-----------------------------------------------------------------------------
(* Replies and the channel of their parent *)

\* thread_parent_id of a request: none, a stored message, an id no message has
ReplyParents == ParentInputs \cup {UnknownId}

NextReply ==
    \/ CreateChannelReq(1, GeneralName, Undefined)
    \/ \E u \in Members, channel \in ChannelIds, parent \in ReplyParents :
          HttpCreateMessageReq(AttachCap, u, Hi, channel, parent, FALSE, TRUE)
    \/ \E u \in Members, channel \in ChannelIds, parent \in ReplyParents :
          SockSendMessageEvt(AttachCap, u, Hi, channel, parent)

SpecReply == InitMsg /\ [][NextReply]_vars

\* C40: in every reachable state every message with a thread_parent_id refers to a
\* stored parent message that is in the same channel as the reply, whichever
\* transport created the reply.
C40_ParentInSameChannel ==
    \A m \in DOMAIN messages :
        messages[m].thread_parent_id # Null =>
            /\ messages[m].thread_parent_id \in DOMAIN messages
            /\ messages[messages[m].thread_parent_id].channel_id = messages[m].channel_id

====
